---- MODULE Spec2Model ----
(***************************************************************************)
(* The acquisition engine of the PRISM daily downloaders                   *)
(* (download_daily_all_2001_2024.py, download_daily_temp_1981_2000.py,     *)
(* download_daily_other_1981_2000.py): download_range dispatches one task  *)
(* per (date, variable) on a thread pool; each task runs                   *)
(* download_date_variable, which calls download_file on the web-service    *)
(* URL and, when the returned message contains "404", on the archive URL.  *)
(***************************************************************************)
EXTENDS Integers, Sequences, FiniteSets, TLC

(***************************************************************************)
(* Program constants.                                                      *)
(***************************************************************************)
\* mutant of max_retries: one more iteration of the retry loop
max_retries_plus_one == 3 + 1
\* download_file(self, url, output_path, max_retries=3)
max_retries == 3
\* if file_size > 1000
SizeThreshold == 1000
\* e.code == 404
NotFoundCode == 404
\* download_range(start, end, max_workers=2) in the test scripts
TestWorkers == 2

(***************************************************************************)
(* Bounds of the exploration.                                              *)
(***************************************************************************)
\* number of consecutive calendar days start_date and end_date are drawn from
MaxDays == 3
\* greatest length of an explicit variables argument
MaxListed == 3
\* when several tasks run together: the number of events other than a complete
\* download (a failing answer, a body no larger than the threshold, a deleted
\* file) explored in one behaviour ...
MaxEvents == 1
\* ... of a call of at most this many tasks that starts at the first day;
\* larger calls are explored on one thread and without events
MaxTasks == 2
\* number of process_time_series calls on one store in one behaviour
MaxRuns == 2
\* greatest batch_days argument
MaxBatch == 2

(***************************************************************************)
(* Text.  Python strings are sequences of one-character strings, so that   *)
(* the substring tests of the code ("404" in message, "Already" in         *)
(* message) are computed and not assumed.                                  *)
(***************************************************************************)
Digits == <<"0", "1", "2", "3", "4", "5", "6", "7", "8", "9">>

RECURSIVE IntStr(_)
\* str(n) / f"{n}" for a non-negative integer
IntStr(n) == IF n < 10 THEN <<Digits[n + 1]>>
             ELSE IntStr(n \div 10) \o <<Digits[(n % 10) + 1]>>

RECURSIVE ZeroPad(_, _)
\* the zero padding of strftime's %Y, %m, %d
ZeroPad(s, w) == IF Len(s) >= w THEN s ELSE ZeroPad(<<"0">> \o s, w)

\* sub in s
Contains(sub, s) ==
    \E k \in 1..(Len(s) - Len(sub) + 1) : SubSeq(s, k, k + Len(sub) - 1) = sub

Str404 == <<"4", "0", "4">>
StrAlready == <<"A", "l", "r", "e", "a", "d", "y">>
MsgAlready == StrAlready \o <<" ", "d", "o", "w", "n", "l", "o", "a", "d", "e", "d">>
MsgSuccess == <<"S", "u", "c", "c", "e", "s", "s">>
MsgNotFound == <<"F", "i", "l", "e", " ", "n", "o", "t", " ", "f", "o", "u", "n", "d",
                 " ", "(">> \o Str404 \o <<")">>
MsgHttpError(code) == <<"H", "T", "T", "P", " ", "E", "r", "r", "o", "r", " ">> \o IntStr(code)
MsgMaxRetries == <<"M", "a", "x", " ", "r", "e", "t", "r", "i", "e", "s", " ",
                   "e", "x", "c", "e", "e", "d", "e", "d">>

\* str(e) of socket.timeout
MsgTimedOut == <<"t", "i", "m", "e", "d", " ", "o", "u", "t">>
\* str(e) of http.client.IncompleteRead after nread bytes
MsgIncompleteRead(nread) ==
    <<"I", "n", "c", "o", "m", "p", "l", "e", "t", "e", "R", "e", "a", "d", "(">>
    \o IntStr(nread) \o <<" ", "b", "y", "t", "e", "s", " ", "r", "e", "a", "d", ")">>
\* str(e) of the OSError raised by f.write on a full device
MsgNoSpace == <<"[", "E", "r", "r", "n", "o", " ", "2", "8", "]", " ", "N", "o", " ",
                "s", "p", "a", "c", "e", " ", "l", "e", "f", "t">>

(***************************************************************************)
(* Dates: datetime values at midnight, as <<year, month, day>>.            *)
(***************************************************************************)
IsLeap(y) == (y % 4 = 0 /\ y % 100 # 0) \/ y % 400 = 0
DaysInMonth(y, m) == IF m = 2 THEN (IF IsLeap(y) THEN 29 ELSE 28)
                     ELSE IF m \in {4, 6, 9, 11} THEN 30 ELSE 31
\* current + timedelta(days=1)
NextDay(date) ==
    IF date[3] < DaysInMonth(date[1], date[2]) THEN <<date[1], date[2], date[3] + 1>>
    ELSE IF date[2] < 12 THEN <<date[1], date[2] + 1, 1>>
    ELSE <<date[1] + 1, 1, 1>>
\* current <= end_date
DateLE(a, b) ==
    \/ a[1] < b[1]
    \/ a[1] = b[1] /\ a[2] < b[2]
    \/ a[1] = b[1] /\ a[2] = b[2] /\ a[3] <= b[3]
\* mutant of DateStr: the monthly files' date.strftime("%Y%m")
DateStrMonthly(date) == ZeroPad(IntStr(date[1]), 4) \o ZeroPad(IntStr(date[2]), 2)
\* date.strftime("%Y%m%d")
DateStr(date) ==
    ZeroPad(IntStr(date[1]), 4) \o ZeroPad(IntStr(date[2]), 2) \o ZeroPad(IntStr(date[3]), 2)

\* The explored start and end dates: consecutive days across a month's end.
FirstDay == <<2001, 1, 30>>
RECURSIVE DayAt(_)
DayAt(k) == IF k = 1 THEN FirstDay ELSE NextDay(DayAt(k - 1))
Days == {DayAt(k) : k \in 1..MaxDays}

RECURSIVE generate_date_range_exclusive(_, _)
\* mutant of generate_date_range: "while current < end_date"
generate_date_range_exclusive(start_date, end_date) ==
    IF DateLE(start_date, end_date) /\ start_date # end_date
    THEN <<start_date>> \o generate_date_range_exclusive(NextDay(start_date), end_date)
    ELSE <<>>

RECURSIVE generate_date_range(_, _)
\* while current <= end_date: dates.append(current); current += timedelta(days=1)
generate_date_range(start_date, end_date) ==
    IF DateLE(start_date, end_date)
    THEN <<start_date>> \o generate_date_range(NextDay(start_date), end_date)
    ELSE <<>>

(***************************************************************************)
(* The downloader object.                                                  *)
(***************************************************************************)
\* self.variables, in the order of the table
self_variables == <<"tmin", "tmax", "tmean", "ppt", "tdmean", "vpdmin", "vpdmax">>

\* filename = f"PRISM_{variable}_stable_4kmD2_{date_str}_bil.zip"
Filename(date, variable) == <<"PRISM_", variable, "_stable_4kmD2_", DateStr(date), "_bil.zip">>
\* mutant of OutputPath: one file per date, whatever the variable
OutputPathOfDate(date, variable) ==
    <<"output_dir", self_variables[1], Filename(date, self_variables[1])>>
\* output_path = self.output_dir / variable / filename
OutputPath(date, variable) == <<"output_dir", variable, Filename(date, variable)>>

\* build_url(variable, date, use_ftp)
build_url(variable, date, use_ftp) ==
    IF use_ftp
    THEN <<"ftp_base", variable, IntStr(date[1]), Filename(date, variable)>>
    ELSE <<"base_url", variable, DateStr(date)>>

\* vars_to_download = variables if variables else list(self.variables)
VarsToDownload(variables) == IF variables # <<>> THEN variables ELSE self_variables

RECURSIVE TaskList(_, _)
\* for date in dates: for variable in vars_to_download: tasks.append((date, variable))
TaskList(dates, vars) ==
    IF dates = <<>> THEN <<>>
    ELSE [k \in 1..Len(vars) |-> <<dates[1], vars[k]>>] \o TaskList(Tail(dates), vars)

(***************************************************************************)
(* The environment: the output tree and the answers of one urlopen + read  *)
(* + write.                                                                *)
(***************************************************************************)
NoFile == [exists |-> FALSE, size |-> 0, whole |-> FALSE]
\* a file that holds a body as it was received, n bytes long
File(n) == [exists |-> TRUE, size |-> n, whole |-> TRUE]
\* a file that holds the first n bytes of a body only
Truncated(n) == [exists |-> TRUE, size |-> n, whole |-> FALSE]
\* what a destination may hold before a call: nothing, an empty file, a file of
\* exactly the threshold, a file just above it
FileStates == {NoFile, File(0), File(SizeThreshold), File(SizeThreshold + 1)}

AllPaths == {OutputPath(d, self_variables[k]) : d \in Days, k \in 1..Len(self_variables)}

\* a complete body of n bytes, written to the destination
RespOk(n) == [kind |-> "ok", n |-> n]
\* urllib.error.HTTPError with e.code = n
RespHttp(n) == [kind |-> "http", n |-> n]
\* socket.timeout raised by urlopen or read
RespTimeout == [kind |-> "timeout", n |-> 0]
\* http.client.IncompleteRead raised by read after n bytes
RespIncomplete(n) == [kind |-> "incomplete", n |-> n]
\* the body arrived, open(output_path, 'wb') truncated the file and f.write raised
\* OSError after n bytes reached the file
RespWriteFail(n) == [kind |-> "wfail", n |-> n]

\* every behaviour of one attempt
AllResponses ==
    {RespOk(SizeThreshold), RespOk(SizeThreshold + 1),
     RespHttp(NotFoundCode), RespHttp(500),
     RespTimeout, RespIncomplete(404),
     RespWriteFail(0), RespWriteFail(SizeThreshold + 1)}
\* the behaviours explored when several tasks run together
FewResponses ==
    {RespOk(SizeThreshold), RespOk(SizeThreshold + 1), RespHttp(NotFoundCode), RespTimeout}

\* str(e) for the exceptions that reach "except Exception as e"
ExceptionText(r) ==
    CASE r.kind = "timeout" -> MsgTimedOut
      [] r.kind = "incomplete" -> MsgIncompleteRead(r.n)
      [] r.kind = "wfail" -> MsgNoSpace
      [] OTHER -> <<>>

VARIABLES
    fs,          \* the output tree: path -> file
    net,         \* the behaviours the remote side and the disk show (fixed)
    budget,      \* the number of events other than a complete download still explored
    args,        \* the arguments of download_range
    rpc,         \* download_range: "idle", "pool" (inside the executor), "returned"
    tasks,       \* tasks: list of (date, variable)
    st,          \* per task: "queued", "running", "finished", "collected"
    use_ftp,     \* per task: which URL the running download_file call uses
    attempt,     \* per task: the loop variable of download_file
    future,      \* per task: the dict returned by download_date_variable, or None
    completed,   \* finished futures not yet yielded by as_completed, oldest first
    results,     \* results list of download_range
    failed,      \* failed list
    skipped,     \* skipped list
    log,         \* content of download_log.txt
    nreq,        \* history: per task and URL, the number of urlopen calls
    lastResp,    \* history: per task and URL, the last answer
    slept,       \* history: per task and URL, the delays passed to time.sleep
    nwrites,     \* history: per task, the number of times the destination was opened for writing
    fs0,         \* history: the output tree when the current call started
    last,        \* history: the last call that returned, and the files deleted since
    prev,        \* history: the value of last when the current call started
    input_dir,   \* the names of the files of the converter's input directory
    chunk_config,\* self.chunk_config of the converter
    store,       \* the Zarr store at output_zarr
    pts,         \* process_time_series: its position and its local variables
    zhist,       \* history: the store writes and consolidations of the current call
    original,    \* the source raster file handed to the decoder
    zslice,      \* the time slice of the store nearest to the date of that file
    raster,      \* the last result of read_bil_file and of validate_zarr
    bulk,        \* the bulk downloader: its output tree, its calls and their results
    cdir         \* convert_directory: its arguments, its position and its calls

\* the state of the downloader
dvars == <<fs, net, budget, args, rpc, tasks, st, use_ftp, attempt, future, completed,
           results, failed, skipped, log, nreq, lastResp, slept, nwrites, fs0, last, prev>>
\* the state of the converter
zvars == <<input_dir, chunk_config, store, pts, zhist>>

\* the state of the decoder and the validator, and of the bulk downloader
ovars == <<original, zslice, raster, bulk, cdir>>

vars == <<dvars, zvars, ovars>>

\* Python's None, where a string is expected
None == <<>>
\* a future that has not returned
Pending == [success |-> FALSE, message |-> <<>>, date |-> <<>>, variable |-> "", path |-> None]
UrlKinds == {"primary", "fallback"}
UrlKind(ftp) == IF ftp THEN "fallback" ELSE "primary"

Dates(a) == generate_date_range(a.start_date, a.end_date)
Vars(a) == VarsToDownload(a.variables)
TasksOf(a) == TaskList(Dates(a), Vars(a))
PathOf(task) == OutputPath(task[1], task[2])
TaskPaths(a) == {PathOf(TasksOf(a)[k]) : k \in 1..Len(TasksOf(a))}
TaskIds == 1..Len(tasks)

\* the variables arguments explored: None, or a list of consecutive entries of
\* the table that starts at the first temperature variable or at ppt
VariableChoices ==
    {<<>>} \cup {SubSeq(self_variables, i, i + n - 1) : i \in {1, 4}, n \in 1..MaxListed}

\* the pool sizes explored: one thread, and the test scripts' two
WorkerChoices == {1, TestWorkers}

ArgChoices ==
    [start_date : Days, end_date : Days, variables : VariableChoices,
     max_workers : WorkerChoices]

(***************************************************************************)
(* download_file: one iteration of "for attempt in range(max_retries)".    *)
(***************************************************************************)
\* mutant of AlreadyFetched: "file_size >= 1000"
AlreadyFetchedAtThreshold(file) == file.exists /\ file.size >= SizeThreshold
\* mutant of AlreadyFetched: "larger than 1KB" taken as 1024 bytes
AlreadyFetchedAboveKiB(file) == file.exists /\ file.size > 1024
\* output_path.exists() and output_path.stat().st_size > 1000
AlreadyFetched(file) == file.exists /\ file.size > SizeThreshold
\* mutant of IsNotFound: no special case for 404
IsNotFoundNever(code) == FALSE
\* e.code == 404
IsNotFound(code) == code = NotFoundCode
\* mutant of IsLastAttempt: "attempt == max_retries - 2"
IsLastAttemptEarly(a) == a = max_retries - 2
\* attempt == max_retries - 1
IsLastAttempt(a) == a = max_retries - 1
\* mutant of Backoff: "time.sleep(2 * attempt)"
BackoffLinear(a) == 2 * a
\* time.sleep(2 ** attempt)
Backoff(a) == 2 ^ a

Returned(ok, msg, file, req, opened) ==
    [returns |-> TRUE, success |-> ok, message |-> msg, file |-> file,
     requested |-> req, opened |-> opened, sleeps |-> <<>>]
\* an except branch: the failure is returned on the last attempt, otherwise
\* the thread sleeps and the loop goes on; a loop that runs out returns
\* "Max retries exceeded"
Retried(a, msg, file, opened) ==
    IF IsLastAttempt(a) THEN Returned(FALSE, msg, file, TRUE, opened)
    ELSE IF a + 1 < max_retries
    THEN [returns |-> FALSE, success |-> FALSE, message |-> <<>>, file |-> file,
          requested |-> TRUE, opened |-> opened, sleeps |-> <<Backoff(a)>>]
    ELSE [returns |-> TRUE, success |-> FALSE, message |-> MsgMaxRetries, file |-> file,
          requested |-> TRUE, opened |-> opened, sleeps |-> <<Backoff(a)>>]

\* the iteration with loop variable a, the destination holding file, and the
\* remote side and the disk behaving as r
DownloadFileStep(file, a, r) ==
    IF AlreadyFetched(file) THEN Returned(TRUE, MsgAlready, file, FALSE, FALSE)
    ELSE CASE r.kind = "ok" -> Returned(TRUE, MsgSuccess, File(r.n), TRUE, TRUE)
           [] r.kind = "http" ->
                IF IsNotFound(r.n) THEN Returned(FALSE, MsgNotFound, file, TRUE, FALSE)
                ELSE Retried(a, MsgHttpError(r.n), file, FALSE)
           [] r.kind = "wfail" -> Retried(a, ExceptionText(r), Truncated(r.n), TRUE)
           [] OTHER -> Retried(a, ExceptionText(r), file, FALSE)

(***************************************************************************)
(* download_date_variable.                                                 *)
(***************************************************************************)
\* if not success and "404" in message
NeedsFallback(success, message) == ~success /\ Contains(Str404, message)

\* the returned dict
\* a result that names the destination whether or not the task succeeded
ResultDictAlwaysPath(task, success, message) ==
    [date |-> DateStr(task[1]), variable |-> task[2], success |-> success,
     message |-> message, path |-> PathOf(task)]
\* the dict returned by download_date_variable
ResultDict(task, success, message) ==
    [date |-> DateStr(task[1]), variable |-> task[2], success |-> success,
     message |-> message, path |-> IF success THEN PathOf(task) ELSE None]

(***************************************************************************)
(* The converter (prism_to_zarr.py): file names, their parsing and order,  *)
(* batches and chunk shapes.  A file name is the sequence of its           *)
(* characters.                                                             *)
(***************************************************************************)
\* CHUNK_CONFIGS
CHUNK_CONFIGS ==
    [time_optimized |-> [time |-> 365, lat |-> 621, lon |-> 1405],
     space_optimized |-> [time |-> -1, lat |-> 155, lon |-> 351],
     balanced |-> [time |-> 30, lat |-> 207, lon |-> 468]]

\* the characters of the explored names, in the order of their code points
CodePoints == <<".", "0", "1", "2", "3", "4", "5", "6", "7", "8", "9",
                "D", "I", "M", "P", "R", "S", "_",
                "a", "b", "e", "i", "k", "l", "m", "n", "p", "s", "t", "x", "z">>
Ord(c) == CHOOSE k \in 1..Len(CodePoints) : CodePoints[k] = c

\* s < t for two Python strings: decided by the code points at the first
\* position where they differ, or by the lengths when one is a prefix
StrLess(s, t) ==
    LET n == IF Len(s) <= Len(t) THEN Len(s) ELSE Len(t)
        differ == {k \in 1..n : s[k] # t[k]}
    IN IF differ = {} THEN Len(s) < Len(t)
       ELSE LET k == CHOOSE j \in differ : \A h \in differ : j <= h
            IN Ord(s[k]) < Ord(t[k])

RECURSIVE sorted(_)
\* sorted(input_dir.glob(pattern)): the paths of one directory, by name
sorted(names) ==
    IF names = {} THEN <<>>
    ELSE LET first == CHOOSE n \in names : \A m \in names \ {n} : StrLess(n, m)
         IN <<first>> \o sorted(names \ {first})

StartsWith(s, prefix) == Len(s) >= Len(prefix) /\ SubSeq(s, 1, Len(prefix)) = prefix
EndsWith(s, suffix) ==
    Len(s) >= Len(suffix) /\ SubSeq(s, Len(s) - Len(suffix) + 1, Len(s)) = suffix

\* f"PRISM_{variable}_stable_4km" and "_bil.zip", the two sides of the star of
\* pattern = f"PRISM_{variable}_stable_4km*_bil.zip"
NamePrefix(variable) ==
    <<"P", "R", "I", "S", "M", "_">> \o variable
    \o <<"_", "s", "t", "a", "b", "l", "e", "_", "4", "k", "m">>
NameSuffix == <<"_", "b", "i", "l", ".", "z", "i", "p">>

\* input_dir.glob(pattern): the star matches any run of characters of one name
GlobMatches(name, variable) ==
    /\ StartsWith(name, NamePrefix(variable))
    /\ EndsWith(name, NameSuffix)
    /\ Len(name) >= Len(NamePrefix(variable)) + Len(NameSuffix)

RECURSIVE Replace(_, _)
\* s.replace(old, '')
Replace(s, old) ==
    IF ~Contains(old, s) THEN s
    ELSE IF StartsWith(s, old) THEN Replace(SubSeq(s, Len(old) + 1, Len(s)), old)
    ELSE <<s[1]>> \o Replace(Tail(s), old)

RECURSIVE Split(_, _)
\* s.split(sep) for a separator of one character
Split(s, sep) ==
    IF \A k \in 1..Len(s) : s[k] # sep THEN <<s>>
    ELSE LET k == CHOOSE j \in 1..Len(s) : s[j] = sep /\ \A h \in 1..(j - 1) : s[h] # sep
         IN <<SubSeq(s, 1, k - 1)>> \o Split(SubSeq(s, k + 1, Len(s)), sep)

\* int(s) raises ValueError unless s is a numeral; the explored names hold no
\* sign, blank or underscore inside a token
IsNumeral(s) == s # <<>> /\ \A k \in 1..Len(s) : \E d \in 1..10 : Digits[d] = s[k]
RECURSIVE IntOf(_)
\* int(s) for a numeral
IntOf(s) == IF s = <<>> THEN 0
            ELSE 10 * IntOf(SubSeq(s, 1, Len(s) - 1))
                 + ((CHOOSE d \in 1..10 : Digits[d] = s[Len(s)]) - 1)

\* the metadata of parse_filename from the parts of the name: the keys among
\* year, month and day, with their values, or the ValueError of int()
MetadataOf(parts) ==
    LET none == [raises |-> FALSE, keys |-> {}, year |-> 0, month |-> 0, day |-> 0]
    IN IF Len(parts) < 5 THEN none
       ELSE IF Len(parts[5]) \notin {4, 6, 8} THEN none
       ELSE IF ~IsNumeral(parts[5]) THEN [none EXCEPT !.raises = TRUE]
       ELSE IF Len(parts[5]) = 6
            THEN [raises |-> FALSE, keys |-> {"year", "month"},
                  year |-> IntOf(SubSeq(parts[5], 1, 4)),
                  month |-> IntOf(SubSeq(parts[5], 5, 6)), day |-> 0]
       ELSE IF Len(parts[5]) = 8
            THEN [raises |-> FALSE, keys |-> {"year", "month", "day"},
                  year |-> IntOf(SubSeq(parts[5], 1, 4)),
                  month |-> IntOf(SubSeq(parts[5], 5, 6)),
                  day |-> IntOf(SubSeq(parts[5], 7, 8))]
       ELSE [raises |-> FALSE, keys |-> {"year"},
             year |-> IntOf(parts[5]), month |-> 0, day |-> 0]

\* PRISMProcessor.parse_filename: parts = filename.replace('.bil', '').split('_')
parse_filename(filename) == MetadataOf(Split(Replace(filename, <<".", "b", "i", "l">>), "_"))

\* datetime(year, month, day) raises ValueError outside the calendar
IsDate(y, m, d) == y \in 1..9999 /\ m \in 1..12 /\ d \in 1..DaysInMonth(y, m)

RECURSIVE Parsed(_)
\* "for file_path in all_files": each name with the metadata parsed from it
Parsed(all_files) ==
    IF all_files = <<>> THEN <<>>
    ELSE <<[file_path |-> all_files[1], metadata |-> parse_filename(all_files[1])]>>
         \o Parsed(Tail(all_files))

\* mutant of InRange: "start_date <= file_date < end_date"
InRangeExclusive(metadata, start_date, end_date) ==
    /\ ~metadata.raises
    /\ {"year", "month", "day"} \subseteq metadata.keys
    /\ IsDate(metadata.year, metadata.month, metadata.day)
    /\ DateLE(start_date, <<metadata.year, metadata.month, metadata.day>>)
    /\ DateLE(<<metadata.year, metadata.month, metadata.day>>, end_date)
    /\ <<metadata.year, metadata.month, metadata.day>> # end_date
\* the rest of the loop body: the file is kept when its metadata hold year,
\* month and day of a day of the calendar inside [start_date, end_date]
InRange(metadata, start_date, end_date) ==
    /\ ~metadata.raises
    /\ {"year", "month", "day"} \subseteq metadata.keys
    /\ IsDate(metadata.year, metadata.month, metadata.day)
    /\ DateLE(start_date, <<metadata.year, metadata.month, metadata.day>>)
    /\ DateLE(<<metadata.year, metadata.month, metadata.day>>, end_date)

RECURSIVE FilesToProcess(_, _, _)
\* files_to_process: the (file_path, file_date) pairs kept, in the order of all_files
FilesToProcess(parsed, start_date, end_date) ==
    IF parsed = <<>> THEN <<>>
    ELSE (IF InRange(parsed[1].metadata, start_date, end_date)
          THEN <<[file_path |-> parsed[1].file_path,
                  file_date |-> <<parsed[1].metadata.year, parsed[1].metadata.month,
                                  parsed[1].metadata.day>>]>>
          ELSE <<>>)
         \o FilesToProcess(Tail(parsed), start_date, end_date)

Min(a, b) == IF a <= b THEN a ELSE b

\* mutant of BatchAt: the slice runs one file further
BatchAtInclusive(files, i, batch_days) ==
    SubSeq(files, i + 1, Min(i + batch_days + 1, Len(files)))
\* batch = files_to_process[i:i + batch_days]
BatchAt(files, i, batch_days) == SubSeq(files, i + 1, Min(i + batch_days, Len(files)))

RECURSIVE Keep(_, _, _)
\* datasets: the files of the batch whose decoding did not raise (those at the
\* positions ok), in the order of the batch
Keep(batch, ok, k) ==
    IF k > Len(batch) THEN <<>>
    ELSE (IF k \in ok THEN <<batch[k]>> ELSE <<>>) \o Keep(batch, ok, k + 1)

\* mutant of sortby_time: the batch is written in the order of its datasets
sortby_none(times) == times
RECURSIVE sortby_time(_)
\* xr.concat(datasets, dim='time').sortby('time'): the time coordinate of the
\* batch, in non-decreasing order, equal times in the order of the datasets
sortby_time(times) ==
    IF times = <<>> THEN <<>>
    ELSE LET k == CHOOSE j \in 1..Len(times) :
                      /\ \A h \in 1..Len(times) : DateLE(times[j], times[h])
                      /\ \A h \in 1..(j - 1) : times[h] # times[j]
         IN <<times[k]>> \o sortby_time(SubSeq(times, 1, k - 1) \o SubSeq(times, k + 1, Len(times)))

\* encoding[variable]['chunks'] for a batch of n time steps
EncodingChunks(config, n) == <<Min(config.time, n), config.lat, config.lon>>

\* a name of the downloader's form, with a release tag and a date token
EntryName(variable, tag, token) ==
    NamePrefix(variable) \o tag \o <<"_">> \o token \o NameSuffix

\* the variable argument of the explored calls
variable == <<"t", "m", "i", "n">>
\* the input directory the downloader leaves after a complete run over Days
DownloadedNames == {EntryName(variable, <<"D", "2">>, DateStr(d)) : d \in Days}
\* the names the input directory is drawn from: the daily files the downloader
\* writes, a daily file of another release for the second day (its name sorts
\* before the names of the downloader), and the monthly file of the first
\* day's month
DirEntries ==
    DownloadedNames
    \cup {EntryName(variable, <<"D", "1">>, DateStr(DayAt(2))),
          EntryName(variable, <<"M", "3">>, SubSeq(DateStr(FirstDay), 1, 6))}
\* names that match the pattern of process_time_series without the date token
\* of a daily file: no token between tag and suffix, a token of seven digits,
\* a token of eight characters that is not a numeral; and the daily file of
\* another variable, which does not match
OtherEntries ==
    {NamePrefix(variable) \o NameSuffix,
     EntryName(<<"t", "m", "a", "x">>, <<"D", "2">>, DateStr(FirstDay)),
     EntryName(variable, <<"D", "2">>, SubSeq(DateStr(FirstDay), 1, 7)),
     EntryName(variable, <<"D", "2">>, SubSeq(DateStr(FirstDay), 1, 6) \o <<"x", "x">>)}
\* the explored input directories: any of the dated names, or the downloader's
\* directory with the other names beside them
Directories == (SUBSET DirEntries) \cup {DownloadedNames \cup OtherEntries}

\* output_zarr does not exist
NoStore == [exists |-> FALSE, time |-> <<>>, chunks |-> <<>>, consolidated |-> FALSE]
\* process_time_series is not running and has not run
NotRunning ==
    [pc |-> "idle", start_date |-> <<>>, end_date |-> <<>>, batch_days |-> 0,
     append_mode |-> FALSE, parse_errors |-> {}, files_to_process |-> <<>>,
     i |-> 0, data_written |-> FALSE]
\* nothing was written, decoded or consolidated
NoHistory == [runs |-> 0, writes |-> <<>>, consolidations |-> 0, decoded |-> {},
              failed |-> {}, batches |-> <<>>]

\* no converter has been constructed
NoConverter ==
    /\ input_dir = {}
    /\ chunk_config = CHUNK_CONFIGS.time_optimized
    /\ store = NoStore
    /\ pts = NotRunning
    /\ zhist = NoHistory

(***************************************************************************)
(* The decoder (PRISMProcessor) and the grid of the converter.  A grid is  *)
(* a sequence of rows, a payload the sequence of its 32-bit values in file *)
(* order; the grid has nrows x ncols cells.                                *)
(***************************************************************************)
\* GRID_SPECS[resolution], with a grid of a few cells
nrows == 2
ncols == 2
nodata_value == -9999
\* the value xarray gives a masked or missing cell: not a number, here a
\* value that no payload holds
NaN == nodata_value - 1

\* Path.suffix and Path.stem: the name is split at its last dot
LastDot(name) ==
    IF \A k \in 1..Len(name) : name[k] # "." THEN 0
    ELSE CHOOSE k \in 1..Len(name) :
             name[k] = "." /\ \A j \in (k + 1)..Len(name) : name[j] # "."
suffix(name) == IF LastDot(name) = 0 THEN <<>> ELSE SubSeq(name, LastDot(name), Len(name))
stem(name) == IF LastDot(name) = 0 THEN name ELSE SubSeq(name, 1, LastDot(name) - 1)
Dot(ext) == <<".">> \o ext

\* np.arange(start, start + n * cellsize, cellsize)[:n], counted in cells
arange(n) == [k \in 1..n |-> k - 1]
\* self.lon of the converter
self_lon == arange(ncols)
\* a coordinate array left as np.arange gives it
lat_ascending == arange(nrows)
\* self.lat of the converter: self.lat[::-1]
self_lat == [k \in 1..nrows |-> arange(nrows)[nrows + 1 - k]]

\* read_bil_data on a payload among the files beside it: the dimensions come
\* from the .hdr file of the same stem when there is one (its content is
\* written <<nrows, ncols>>), the values are
\* reshaped row by row, and reshape raises when their number does not fit
read_bil_data(beside, bil) ==
    LET hdrs == {k \in 1..Len(beside) :
                    beside[k].name = stem(bil.name) \o Dot(<<"h", "d", "r">>)}
        header == IF hdrs = {} THEN <<nrows, ncols>>
                  ELSE beside[CHOOSE k \in hdrs : TRUE].content
    IN IF Len(bil.content) # header[1] * header[2]
       THEN [raised |-> TRUE, data |-> <<>>, payload |-> bil]
       ELSE [raised |-> FALSE,
             data |-> [i \in 1..header[1] |->
                          [j \in 1..header[2] |->
                              bil.content[(i - 1) * header[2] + j]]],
             payload |-> bil]

\* the decoder has produced nothing
NotRead == [raised |-> TRUE, data |-> <<>>, payload |-> [name |-> <<>>, content |-> <<>>]]
\* read_prism_dataset: an archive is extracted and the first .bil member is
\* the payload, a .bil file is its own payload, any other suffix raises; the
\* payload is read and its name parsed
read_prism_dataset(file_path) ==
    LET bil_files == SelectSeq(file_path.members,
                               LAMBDA m : suffix(m.name) = Dot(<<"b", "i", "l">>))
        read(bil_path) ==
            IF parse_filename(bil_path.name).raises
            THEN [NotRead EXCEPT !.payload = bil_path]
            ELSE read_bil_data(file_path.members, bil_path)
    IN IF suffix(file_path.name) = Dot(<<"z", "i", "p">>)
       THEN IF bil_files = <<>> THEN NotRead ELSE read(bil_files[1])
       ELSE IF suffix(file_path.name) = Dot(<<"b", "i", "l">>)
       THEN read([name |-> file_path.name, content |-> file_path.content])
       ELSE NotRead
\* PRISMToZarrConverter.read_bil_file: the decoder's result, untouched
read_bil_file(file_path) == read_prism_dataset(file_path)

\* the shape of a grid
Shape(data) == <<Len(data), IF Len(data) = 0 THEN 0 ELSE Len(data[1])>>
\* output_zarr holds no time slice
NoSlice == [exists |-> FALSE, lat |-> <<>>, lon |-> <<>>, values |-> <<>>]
\* create_xarray_dataset, to_zarr and open_zarr: the rows of the grid under
\* the coordinates self.lat and self.lon, a masked cell read back as NaN
StoredSlice(data) ==
    [exists |-> TRUE, lat |-> self_lat, lon |-> self_lon,
     values |-> [i \in 1..nrows |->
                    [j \in 1..ncols |->
                        IF data[i][j] = nodata_value THEN NaN ELSE data[i][j]]]]

Abs(x) == IF x < 0 THEN -x ELSE x
\* validate_zarr: False for every exception of the body, for two shapes and
\* for max_diff > tolerance; max_diff is taken over the cells of the source
\* that are not nodata_value, it is NaN when one of them is NaN in the store,
\* and NaN > tolerance is false
validate_zarr(slice, original_file, tolerance) ==
    LET r == read_bil_file(original_file)
        metadata == parse_filename(original_file.name)
        cells == {c \in (1..Len(r.data)) \X (1..Shape(r.data)[2]) :
                     r.data[c[1]][c[2]] # nodata_value}
    IN IF r.raised \/ metadata.raises THEN FALSE
       ELSE IF ~({"year", "month", "day"} \subseteq metadata.keys) THEN FALSE
       ELSE IF ~IsDate(metadata.year, metadata.month, metadata.day) THEN FALSE
       ELSE IF ~slice.exists THEN FALSE
       ELSE IF Shape(r.data) # Shape(slice.values) THEN FALSE
       ELSE IF \E c \in cells : slice.values[c[1]][c[2]] = NaN THEN TRUE
       ELSE ~(\E c \in cells :
                 Abs(r.data[c[1]][c[2]] - slice.values[c[1]][c[2]]) > tolerance)

(***************************************************************************)
(* The bulk downloader (prism_bulk_download.py).                           *)
(***************************************************************************)
\* download_file(self, url, output_path, retries=3)
retries == 3
\* filename = f"PRISM_{variable}_{self.resolution}_daily_{date_str}.zip"
BulkFilename(date) == <<"PRISM_", "tmin", "_4km_daily_", DateStr(date), ".zip">>
\* one behaviour of urlretrieve: the body arrives and is written; HTTPError
\* before the file is opened; ContentTooShortError after n bytes are written;
\* a timeout of read after the file is opened
BulkResponses ==
    {RespOk(SizeThreshold + 1), RespHttp(NotFoundCode), RespIncomplete(SizeThreshold),
     RespTimeout}
\* the file urlretrieve leaves at output_path
Retrieved(file, r) ==
    CASE r.kind = "ok" -> File(r.n)
      [] r.kind = "http" -> file
      [] r.kind = "incomplete" -> Truncated(r.n)
      [] OTHER -> Truncated(0)
\* "except urllib.error.URLError": HTTPError and ContentTooShortError are
\* subclasses of URLError, a timeout of read is not
IsURLError(r) == r.kind \in {"http", "incomplete"}
\* if output_path.exists()
BulkSkips(file) == file.exists
\* download_batch has not been called
BulkIdle(tree) ==
    [pc |-> "idle", fs |-> tree, fs0 |-> tree, urls |-> <<>>, st |-> <<>>,
     attempt |-> <<>>, answers |-> <<>>, downloaded |-> <<>>, failed |-> <<>>]
\* the bulk downloader is not used, convert_directory is not called
NoBulk ==
    /\ bulk = BulkIdle(<<>>)
    /\ cdir = [pc |-> "idle", var_dirs |-> <<>>, k |-> 0, given |-> <<None, None>>,
               start_date |-> None, end_date |-> None, calls |-> <<>>]
\* nothing has been read or validated
Unread == [pc |-> "idle", read |-> NotRead, valid |-> FALSE, tolerance |-> 0,
           replaced |-> 0]
\* the decoder and the validator are not used
NoRaster ==
    /\ original = [name |-> <<>>, members |-> <<>>, content |-> <<>>]
    /\ zslice = NoSlice
    /\ raster = Unread

(***************************************************************************)
(* The state after construction, with the arguments of the calls to come.  *)
(***************************************************************************)
EmptyPerTask == [i \in {} |-> 0]
\* no call has returned yet
NoCall == [ran |-> FALSE, allOk |-> FALSE, tree |-> <<>>, deleted |-> {}]
\* no answer yet
NoResp == [kind |-> "none", n |-> 0]

DownloaderInit(a, responses, events, tree) ==
    /\ args = a
    /\ net = responses
    /\ budget = events
    /\ fs = tree
    /\ rpc = "idle"
    /\ tasks = <<>>
    /\ st = EmptyPerTask
    /\ use_ftp = EmptyPerTask
    /\ attempt = EmptyPerTask
    /\ future = EmptyPerTask
    /\ completed = <<>>
    /\ results = <<>>
    /\ failed = <<>>
    /\ skipped = <<>>
    /\ log = None
    /\ nreq = EmptyPerTask
    /\ lastResp = EmptyPerTask
    /\ slept = EmptyPerTask
    /\ nwrites = EmptyPerTask
    /\ fs0 = tree
    /\ last = NoCall
    /\ prev = NoCall

\* the downloader alone: no converter has been constructed
InitWith(a, responses, events, tree) ==
    /\ DownloaderInit(a, responses, events, tree)
    /\ NoConverter
    /\ NoRaster
    /\ NoBulk

\* output trees that hold nothing outside the destinations of the tasks of a
Trees(a) == {[p \in AllPaths |-> IF p \in TaskPaths(a) THEN t[p] ELSE NoFile] :
                t \in [TaskPaths(a) -> FileStates]}

\* the tree of a downloader constructed on a new directory
EmptyTree == [p \in AllPaths |-> NoFile]

\* a complete body larger than the threshold is the nominal answer
Nominal == {RespOk(SizeThreshold + 1)}

\* at most one task, of the first variable when one is listed, on any output
\* tree, against every behaviour of an attempt
Init ==
    \E a \in ArgChoices :
        /\ Len(TasksOf(a)) <= 1
        /\ IF a.variables = <<>> THEN TRUE ELSE a.variables[1] = self_variables[1]
        /\ a.max_workers = 1
        /\ \E tree \in Trees(a) : InitWith(a, [responses |-> AllResponses, limited |-> FALSE, free |-> Nominal], 0, tree)

\* any number of tasks, on a new output tree, against a few behaviours and
\* with a bounded number of events
InitRange ==
    \E a \in ArgChoices :
        /\ Len(TasksOf(a)) > MaxTasks => a.max_workers = 1
        /\ InitWith(a, [responses |-> FewResponses, limited |-> TRUE, free |-> Nominal],
                    IF Len(TasksOf(a)) <= MaxTasks /\ a.start_date = FirstDay
                    THEN MaxEvents ELSE 0, EmptyTree)

\* the answers explored when several tasks fail together
PoolResponses == {RespOk(SizeThreshold + 1), RespHttp(NotFoundCode)}
\* two to MaxTasks tasks from the first day and the first variable on, on a
\* new output tree, each request answered with the file or with 404, any
\* number of times, and for two tasks a bounded number of deletions and
\* interruptions
InitPool ==
    \E a \in ArgChoices :
        /\ a.start_date = FirstDay
        /\ a.variables # <<>> /\ a.variables[1] = self_variables[1]
        /\ Len(TasksOf(a)) \in 2..MaxTasks
        /\ InitWith(a, [responses |-> PoolResponses, limited |-> TRUE, free |-> PoolResponses],
                    IF Len(TasksOf(a)) = 2 THEN MaxEvents ELSE 0, EmptyTree)

\* an answer that is not among the free ones counts as an event
IsEvent(r) == r \notin net.free
\* the events explored are bounded when net.limited
Allowed(isEvent) == net.limited /\ isEvent => budget > 0
Spend(isEvent) == IF net.limited /\ isEvent THEN budget - 1 ELSE budget

(***************************************************************************)
(* download_range.                                                         *)
(***************************************************************************)
\* from the entry of download_range to the submission of every task
Call ==
    /\ rpc \in {"idle", "returned"}
    /\ rpc' = "pool"
    /\ tasks' = TasksOf(args)
    /\ st' = [i \in 1..Len(TasksOf(args)) |-> "queued"]
    /\ use_ftp' = [i \in 1..Len(TasksOf(args)) |-> FALSE]
    /\ attempt' = [i \in 1..Len(TasksOf(args)) |-> 0]
    /\ future' = [i \in 1..Len(TasksOf(args)) |-> Pending]
    /\ completed' = <<>>
    /\ results' = <<>>
    /\ failed' = <<>>
    /\ skipped' = <<>>
    /\ nreq' = [i \in 1..Len(TasksOf(args)) |-> [u \in UrlKinds |-> 0]]
    /\ lastResp' = [i \in 1..Len(TasksOf(args)) |-> [u \in UrlKinds |-> NoResp]]
    /\ slept' = [i \in 1..Len(TasksOf(args)) |-> [u \in UrlKinds |-> <<>>]]
    /\ nwrites' = [i \in 1..Len(TasksOf(args)) |-> 0]
    /\ fs0' = fs
    /\ prev' = last
    /\ UNCHANGED <<zvars, ovars>>
    /\ UNCHANGED <<fs, net, budget, args, log, last>>

\* mutant of Running: the thread of a task that failed is not given back
RunningOrFailed ==
    {i \in TaskIds : st[i] = "running" \/ (st[i] \in {"finished", "collected"} /\ ~future[i].success)}
\* mutant of Running: a pool that starts every submitted task at once
RunningNone == {}
\* the tasks that occupy a thread of the executor
Running == {i \in TaskIds : st[i] = "running"}

\* a worker thread of the executor takes the oldest queued task
Start(i) ==
    /\ rpc = "pool"
    /\ st[i] = "queued"
    /\ \A j \in 1..(i - 1) : st[j] # "queued"
    /\ Cardinality(Running) < args.max_workers
    /\ st' = [st EXCEPT ![i] = "running"]
    /\ UNCHANGED <<zvars, ovars>>
    /\ UNCHANGED <<fs, net, budget, args, rpc, tasks, use_ftp, attempt, future, completed,
                   results, failed, skipped, log, nreq, lastResp, slept, nwrites, fs0, last, prev>>

\* one iteration of download_file in the thread of task i, and, when
\* download_file returns, the rest of download_date_variable up to the next
\* download_file iteration or to its own return
Attempt(i, r) ==
    /\ rpc = "pool"
    /\ st[i] = "running"
    /\ Allowed(IsEvent(r) /\ ~AlreadyFetched(fs[PathOf(tasks[i])]))
    /\ budget' = Spend(IsEvent(r) /\ ~AlreadyFetched(fs[PathOf(tasks[i])]))
    /\ LET task == tasks[i]
           path == PathOf(task)
           u == UrlKind(use_ftp[i])
           step == DownloadFileStep(fs[path], attempt[i], r)
       IN  /\ fs' = [fs EXCEPT ![path] = step.file]
           /\ nreq' = [nreq EXCEPT ![i][u] = @ + (IF step.requested THEN 1 ELSE 0)]
           /\ lastResp' = [lastResp EXCEPT ![i][u] = IF step.requested THEN r ELSE @]
           /\ slept' = [slept EXCEPT ![i][u] = @ \o step.sleeps]
           /\ nwrites' = [nwrites EXCEPT ![i] = @ + (IF step.opened THEN 1 ELSE 0)]
           /\ IF ~step.returns
              THEN /\ attempt' = [attempt EXCEPT ![i] = @ + 1]
                   /\ UNCHANGED <<use_ftp, st, future, completed>>
              ELSE IF ~use_ftp[i] /\ NeedsFallback(step.success, step.message)
              THEN /\ use_ftp' = [use_ftp EXCEPT ![i] = TRUE]
                   /\ attempt' = [attempt EXCEPT ![i] = 0]
                   /\ UNCHANGED <<st, future, completed>>
              ELSE /\ future' = [future EXCEPT ![i] = ResultDict(task, step.success, step.message)]
                   /\ st' = [st EXCEPT ![i] = "finished"]
                   /\ completed' = Append(completed, i)
                   /\ UNCHANGED <<use_ftp, attempt>>
    /\ UNCHANGED <<zvars, ovars>>
    /\ UNCHANGED <<net, args, rpc, tasks, results, failed, skipped, log, fs0, last, prev>>

\* mutant of IsSkipped: every successful result counted as skipped
IsSkippedAnySuccess(result) == result.success
\* if result['success']: if "Already" in result['message']: skipped.append(result)
IsSkipped(result) == result.success /\ Contains(StrAlready, result.message)
\* mutant of IsFailed: the else bound to the inner if
IsFailedInnerElse(result) == ~result.success \/ ~Contains(StrAlready, result.message)
\* else: failed.append(result)
IsFailed(result) == ~result.success

\* one iteration of "for future in as_completed(futures)"
Collect ==
    /\ rpc = "pool"
    /\ completed # <<>>
    /\ LET i == Head(completed)
           result == future[i]
       IN  /\ results' = Append(results, result)
           /\ skipped' = IF IsSkipped(result) THEN Append(skipped, result) ELSE skipped
           /\ failed' = IF IsFailed(result) THEN Append(failed, result) ELSE failed
           /\ st' = [st EXCEPT ![i] = "collected"]
    /\ completed' = Tail(completed)
    /\ UNCHANGED <<zvars, ovars>>
    /\ UNCHANGED <<fs, net, budget, args, rpc, tasks, use_ftp, attempt, future, log,
                   nreq, lastResp, slept, nwrites, fs0, last, prev>>

\* the lines of download_log.txt that depend on the run
LogOf(rs, fl) ==
    [total |-> Len(tasks),
     success |-> Cardinality({k \in 1..Len(rs) : rs[k].success}),
     failed |-> Len(fl),
     lines |-> [k \in 1..Len(fl) |-> <<fl[k].date, fl[k].variable, fl[k].message>>]]

\* the executor is left, the summary printed, the log written, results returned
Return ==
    /\ rpc = "pool"
    /\ \A i \in TaskIds : st[i] = "collected"
    /\ rpc' = "returned"
    /\ log' = LogOf(results, failed)
    /\ last' = [ran |-> TRUE, allOk |-> \A k \in 1..Len(results) : results[k].success,
                tree |-> fs, deleted |-> {}]
    /\ UNCHANGED <<zvars, ovars>>
    /\ UNCHANGED <<fs, net, budget, args, tasks, st, use_ftp, attempt, future, completed,
                   results, failed, skipped, nreq, lastResp, slept, nwrites, fs0, prev>>

\* mutant of LeftByInterruptedWrite: the body goes to a temporary file that is
\* renamed to the destination once it is complete
LeftByInterruptedTempWrite(file, n) == file
\* with open(output_path, 'wb') as f: f.write(data), stopped after n bytes
LeftByInterruptedWrite(file, n) == Truncated(n)

\* the numbers of bytes an interrupted write is explored to leave
InterruptSizes == {SizeThreshold, SizeThreshold + 1}

\* the process is interrupted while the thread of task i writes its file; what
\* the run held in memory is lost, the output tree and the old log stay
Interrupt(i, n) ==
    /\ rpc = "pool"
    /\ st[i] = "running"
    /\ ~AlreadyFetched(fs[PathOf(tasks[i])])
    /\ Allowed(TRUE)
    /\ budget' = Spend(TRUE)
    /\ fs' = [fs EXCEPT ![PathOf(tasks[i])] = LeftByInterruptedWrite(@, n)]
    /\ rpc' = "idle"
    /\ tasks' = <<>>
    /\ st' = EmptyPerTask
    /\ use_ftp' = EmptyPerTask
    /\ attempt' = EmptyPerTask
    /\ future' = EmptyPerTask
    /\ completed' = <<>>
    /\ results' = <<>>
    /\ failed' = <<>>
    /\ skipped' = <<>>
    /\ nreq' = EmptyPerTask
    /\ lastResp' = EmptyPerTask
    /\ slept' = EmptyPerTask
    /\ nwrites' = EmptyPerTask
    /\ fs0' = fs'
    /\ last' = NoCall
    /\ prev' = NoCall
    /\ UNCHANGED <<zvars, ovars>>
    /\ UNCHANGED <<net, args, log>>

\* between two calls, somebody deletes a downloaded file
DeleteFile(p) ==
    /\ rpc = "returned"
    /\ fs[p].exists
    /\ Allowed(TRUE)
    /\ budget' = Spend(TRUE)
    /\ fs' = [fs EXCEPT ![p] = NoFile]
    /\ last' = [last EXCEPT !.deleted = @ \cup {p}]
    /\ UNCHANGED <<zvars, ovars>>
    /\ UNCHANGED <<net, args, rpc, tasks, st, use_ftp, attempt, future, completed,
                   results, failed, skipped, log, nreq, lastResp, slept, nwrites, fs0, prev>>

Next ==
    \/ Call
    \/ \E i \in TaskIds : Start(i)
    \/ \E i \in TaskIds : \E r \in net.responses : Attempt(i, r)
    \/ Collect
    \/ Return
    \/ \E i \in TaskIds : DeleteFile(PathOf(tasks[i]))
    \/ \E i \in TaskIds : \E n \in InterruptSizes : Interrupt(i, n)

Spec == Init /\ [][Next]_vars

SpecRange == InitRange /\ [][Next]_vars

\* what the executor's threads and the as_completed loop do by themselves:
\* a free thread takes a queued task, a started attempt ends, a finished
\* future is yielded, and the function returns after the loop
Progress ==
    \/ \E i \in TaskIds : Start(i)
    \/ \E i \in TaskIds : \E r \in net.responses : Attempt(i, r)
    \/ Collect
    \/ Return

SpecPool == InitPool /\ [][Next]_vars /\ WF_vars(Progress)

(***************************************************************************)
(* process_time_series on one store (prism_to_zarr.py).                    *)
(***************************************************************************)
\* a converter constructed with one of the chunk strategies, over an input
\* directory that holds some of the explored names, before any store exists
ConverterInit(names, strategy) ==
    /\ input_dir = names
    /\ chunk_config = CHUNK_CONFIGS[strategy]
    /\ store = NoStore
    /\ pts = NotRunning
    /\ zhist = NoHistory

\* chunk_strategy: str = 'time_optimized'
DefaultStrategy == "time_optimized"
\* the downloader is not used while the converter runs; every directory is
\* converted with the default strategy, the downloader's directory with each
InitZarr ==
    /\ DownloaderInit([start_date |-> FirstDay, end_date |-> FirstDay,
                       variables |-> <<>>, max_workers |-> 1],
                      [responses |-> Nominal, limited |-> TRUE, free |-> Nominal],
                      0, EmptyTree)
    /\ \E names \in Directories : \E strategy \in DOMAIN CHUNK_CONFIGS :
           /\ strategy # DefaultStrategy => names = DownloadedNames
           /\ ConverterInit(names, strategy)
    /\ NoRaster
    /\ NoBulk

\* from the entry of process_time_series to the first batch, or to one of the
\* two early returns
process_time_series ==
    /\ pts.pc # "loop"
    /\ zhist.runs < MaxRuns
    /\ LET all_files == sorted({n \in input_dir : GlobMatches(n, variable)})
           parsed == Parsed(all_files)
       IN \E start_date \in Days : \E end_date \in Days :
            LET files_to_process == FilesToProcess(parsed, start_date, end_date)
            IN \E batch_days \in 1..MaxBatch :
                 pts' = [pc |-> IF all_files = <<>> \/ files_to_process = <<>>
                                THEN "returned" ELSE "loop",
                         start_date |-> start_date, end_date |-> end_date,
                         batch_days |-> batch_days,
                         append_mode |-> store.exists,
                         parse_errors |-> {parsed[k].file_path : k \in
                                              {j \in 1..Len(parsed) : parsed[j].metadata.raises}},
                         files_to_process |-> files_to_process,
                         i |-> 0, data_written |-> FALSE]
    /\ zhist' = [zhist EXCEPT !.runs = @ + 1, !.writes = <<>>, !.consolidations = 0,
                              !.failed = {}, !.batches = <<>>]
    /\ UNCHANGED <<input_dir, chunk_config, store>>
    /\ UNCHANGED <<dvars, ovars>>

\* mutant of IsCreate: "if i == 0"
IsCreateAtFirstBatch(i, append_mode) == i = 0
\* if i == 0 and not append_mode
IsCreate(i, append_mode) == i = 0 /\ ~append_mode

\* what to_zarr leaves at output_zarr.  mode='w' replaces whatever is there;
\* mode='a' with append_dim='time' puts the batch after the time steps the
\* store holds, and on a path that holds no store it creates one when the
\* library accepts the call
Written(mode, times, chunks) ==
    IF mode = "w" \/ ~store.exists
    THEN [exists |-> TRUE, time |-> times, chunks |-> chunks, consolidated |-> FALSE]
    ELSE [store EXCEPT !.time = @ \o times, !.consolidated = FALSE]

\* to_zarr returns, or, for an append to a path that holds no store, raises
ToZarrOutcomes == {"written", "raised"}

\* one iteration of "for i in range(0, len(files_to_process), batch_days)":
\* the files at the positions ok of the batch are decoded, the others raise
Batch(ok, outcome) ==
    /\ pts.pc = "loop"
    /\ pts.i < Len(pts.files_to_process)
    /\ LET batch == BatchAt(pts.files_to_process, pts.i, pts.batch_days)
           datasets == Keep(batch, ok, 1)
           concat == [k \in 1..Len(datasets) |-> datasets[k].file_date]
           batch_ds == sortby_time(concat)
           chunks == EncodingChunks(chunk_config, Len(batch_ds))
           mode == IF IsCreate(pts.i, pts.append_mode) THEN "w" ELSE "a"
           call == [mode |-> mode, chunks |-> chunks, times |-> batch_ds, i |-> pts.i,
                    existed |-> store.exists, outcome |-> outcome, concat |-> concat]
       IN /\ ok \subseteq 1..Len(batch)
          /\ outcome = "raised" => datasets # <<>> /\ mode = "a" /\ ~store.exists
          /\ zhist' = [zhist EXCEPT
                         !.batches = Append(@, batch),
                         !.failed = @ \cup {batch[k].file_path : k \in (1..Len(batch)) \ ok},
                         !.writes = IF datasets = <<>> THEN @ ELSE Append(@, call),
                         !.decoded = IF datasets = <<>> \/ outcome = "raised" THEN @
                                     ELSE (IF mode = "w" \/ ~store.exists THEN {} ELSE @)
                                          \cup {datasets[k].file_path : k \in 1..Len(datasets)}]
          /\ IF datasets = <<>>
             THEN /\ pts' = [pts EXCEPT !.i = @ + pts.batch_days]
                  /\ UNCHANGED store
             ELSE IF outcome = "raised"
             THEN /\ pts' = [pts EXCEPT !.pc = "raised"]
                  /\ UNCHANGED store
             ELSE /\ store' = Written(mode, batch_ds, chunks)
                  /\ pts' = [pts EXCEPT !.i = @ + pts.batch_days, !.data_written = TRUE]
    /\ UNCHANGED <<input_dir, chunk_config>>
    /\ UNCHANGED <<dvars, ovars>>

\* mutant of ShouldConsolidate: the metadata are consolidated after every loop
ShouldConsolidateAlways(data_written) == TRUE
\* if data_written
ShouldConsolidate(data_written) == data_written

\* after the loop: "if data_written: zarr.consolidate_metadata(...)", and the return
Finish ==
    /\ pts.pc = "loop"
    /\ pts.i >= Len(pts.files_to_process)
    /\ pts' = [pts EXCEPT !.pc = "returned"]
    /\ IF ShouldConsolidate(pts.data_written)
       THEN /\ store' = [store EXCEPT !.consolidated = TRUE]
            /\ zhist' = [zhist EXCEPT !.consolidations = @ + 1]
       ELSE UNCHANGED <<store, zhist>>
    /\ UNCHANGED <<input_dir, chunk_config>>
    /\ UNCHANGED <<dvars, ovars>>

\* convert_temp_to_zarr.py: shutil.rmtree(output_zarr) between two conversions
RemoveStore ==
    /\ pts.pc # "loop"
    /\ store.exists
    /\ store' = NoStore
    /\ zhist' = [zhist EXCEPT !.decoded = {}]
    /\ UNCHANGED <<input_dir, chunk_config, pts>>
    /\ UNCHANGED <<dvars, ovars>>

NextZarr ==
    \/ process_time_series
    \/ \E ok \in SUBSET (1..MaxBatch) : \E outcome \in ToZarrOutcomes : Batch(ok, outcome)
    \/ Finish
    \/ RemoveStore

SpecZarr == InitZarr /\ [][NextZarr]_vars

(***************************************************************************)
(* One source raster through the decoder, into the store and through the   *)
(* validator.                                                              *)
(***************************************************************************)
\* the number of members of the explored archives
MaxMembers == 2
\* the number of times the source file is replaced
MaxReplaced == 1
\* the tolerances passed to validate_zarr, in units of the payload values
Tolerances == {0, 1}

\* the archive the downloader stores for the first day, and its payload
DailyName == EntryName(variable, <<"D", "2">>, DateStr(FirstDay))
PayloadStem == stem(DailyName)
\* a payload of n values base + 1, base + 2, ...
Ramp(n, base) == [k \in 1..n |-> base + k]
\* the members an archive is made of: the payload of the day with a full
\* grid, with a nodata cell, or one value short; its header, declaring the
\* same values as one row; a metadata file; the payload of another release;
\* a payload whose name holds no date
Members ==
    {[name |-> PayloadStem \o Dot(<<"b", "i", "l">>), content |-> c] :
        c \in {Ramp(nrows * ncols, 0),
                [Ramp(nrows * ncols, 0) EXCEPT ![1] = nodata_value],
                Ramp(nrows * ncols - 1, 0)}}
    \cup {[name |-> PayloadStem \o Dot(<<"h", "d", "r">>),
           content |-> <<1, nrows * ncols>>],
          [name |-> PayloadStem \o Dot(<<"x", "m", "l">>), content |-> <<>>],
          [name |-> stem(EntryName(variable, <<"D", "1">>, DateStr(FirstDay)))
                        \o Dot(<<"b", "i", "l">>),
           content |-> Ramp(nrows * ncols, 1)],
          [name |-> stem(EntryName(variable, <<"D", "2">>,
                                   SubSeq(DateStr(FirstDay), 1, 6) \o <<"x", "x">>))
                        \o Dot(<<"b", "i", "l">>),
           content |-> Ramp(nrows * ncols, 0)]}
\* the member lists of the explored archives: no name twice
MemberLists ==
    {ms \in UNION {[1..n -> Members] : n \in 0..MaxMembers} :
        \A k \in 1..Len(ms) : \A h \in 1..Len(ms) : k # h => ms[k].name # ms[h].name}
\* the explored source files: the daily archive with each member list, a
\* monthly archive, a bare payload, and a file that is neither
Files ==
    {[name |-> DailyName, members |-> ms, content |-> <<>>] : ms \in MemberLists}
    \cup {[name |-> EntryName(variable, <<"M", "3">>, SubSeq(DateStr(FirstDay), 1, 6)),
           members |-> <<m>>, content |-> <<>>] :
              m \in {m \in Members : m.content = Ramp(nrows * ncols, 0)
                                      /\ stem(m.name) = PayloadStem}}
    \cup {[name |-> PayloadStem \o Dot(<<"b", "i", "l">>), members |-> <<>>,
           content |-> Ramp(nrows * ncols, 0)],
          [name |-> PayloadStem \o Dot(<<"x", "m", "l">>), members |-> <<>>,
           content |-> <<>>]}

InitRaster ==
    /\ DownloaderInit([start_date |-> FirstDay, end_date |-> FirstDay,
                       variables |-> <<>>, max_workers |-> 1],
                      [responses |-> Nominal, limited |-> TRUE, free |-> Nominal],
                      0, EmptyTree)
    /\ NoConverter
    /\ NoBulk
    /\ original \in Files
    /\ zslice = NoSlice
    /\ raster = Unread

\* the body of the decode loop of process_time_series for the file, and the
\* write of its dataset: read_bil_file, create_xarray_dataset (which raises
\* for a grid of another shape than the coordinates), to_zarr with mode='w'
Convert ==
    /\ LET r == read_bil_file(original)
       IN IF ~r.raised /\ Shape(r.data) = <<nrows, ncols>>
          THEN /\ zslice' = StoredSlice(r.data)
               /\ raster' = [raster EXCEPT !.pc = "converted", !.read = r]
          ELSE /\ raster' = [raster EXCEPT !.pc = "failed", !.read = r]
               /\ UNCHANGED zslice
    /\ UNCHANGED <<original, bulk, cdir>>
    /\ UNCHANGED <<dvars, zvars>>

\* validate_zarr(zarr_path, original_file, variable, tolerance)
Validate(tolerance) ==
    /\ raster' = [raster EXCEPT !.pc = "validated",
                                !.read = read_bil_file(original),
                                !.valid = validate_zarr(zslice, original, tolerance),
                                !.tolerance = tolerance]
    /\ UNCHANGED <<original, zslice, bulk, cdir>>
    /\ UNCHANGED <<dvars, zvars>>

\* the environment: the source file is replaced by another one
ReplaceFile(file) ==
    /\ raster.replaced < MaxReplaced
    /\ file # original
    /\ original' = file
    /\ raster' = [Unread EXCEPT !.replaced = raster.replaced + 1]
    /\ UNCHANGED <<zslice, bulk, cdir>>
    /\ UNCHANGED <<dvars, zvars>>

\* the environment: a chunk of the slice just written is lost, its cells read
\* back as NaN (a chunk holds one cell here)
LoseChunk(i, j) ==
    /\ raster.pc = "converted"
    /\ zslice' = [zslice EXCEPT !.values[i][j] = NaN]
    /\ raster' = [raster EXCEPT !.pc = "idle"]
    /\ UNCHANGED <<original, bulk, cdir>>
    /\ UNCHANGED <<dvars, zvars>>

NextRaster ==
    \/ Convert
    \/ \E tolerance \in Tolerances : Validate(tolerance)
    \/ \E file \in Files : ReplaceFile(file)
    \/ \E i \in 1..nrows : \E j \in 1..ncols : LoseChunk(i, j)

SpecRaster == InitRaster /\ [][NextRaster]_vars

(***************************************************************************)
(* convert_directory over the variable directories of an input directory.  *)
(***************************************************************************)
\* "for f in files[:100]", with a sample of a few files
sample_size == 2
\* the names of the explored directories: two keys of VARIABLE_INFO and a
\* directory that is none
DirNames == {variable, <<"t", "m", "a", "x">>, <<"l", "o", "g", "s">>}
VARIABLE_INFO == {variable, <<"t", "m", "a", "x">>}
\* list(var_dir.glob("*.zip")) of a directory: daily files of some days in
\* the order the file system lists them, or the monthly file alone
Listings(v) ==
    {<<>>, <<EntryName(v, <<"M", "3">>, SubSeq(DateStr(FirstDay), 1, 6))>>}
    \cup {[k \in 1..Len(days) |-> EntryName(v, <<"D", "2">>, DateStr(days[k]))] :
             days \in {ds \in UNION {[1..n -> Days] : n \in 1..MaxDays} :
                          \A k \in 1..Len(ds) : \A h \in 1..Len(ds) :
                              k # h => ds[k] # ds[h]}}
\* the dates of the daily names among files
DatesOf(files) ==
    {<<parse_filename(files[k]).year, parse_filename(files[k]).month,
       parse_filename(files[k]).day>> :
        k \in {j \in 1..Len(files) :
                  /\ ~parse_filename(files[j]).raises
                  /\ {"year", "month", "day"} \subseteq parse_filename(files[j]).keys
                  /\ IsDate(parse_filename(files[j]).year, parse_filename(files[j]).month,
                            parse_filename(files[j]).day)}}
\* min(dates) and max(dates)
MinDate(dates) == CHOOSE d \in dates : \A e \in dates : DateLE(d, e)
MaxDate(dates) == CHOOSE d \in dates : \A e \in dates : DateLE(e, d)

\* convert_directory(input_dir, output_base, start_date, end_date) is entered
InitConvert ==
    /\ DownloaderInit([start_date |-> FirstDay, end_date |-> FirstDay,
                       variables |-> <<>>, max_workers |-> 1],
                      [responses |-> Nominal, limited |-> TRUE, free |-> Nominal],
                      0, EmptyTree)
    /\ NoConverter
    /\ NoRaster
    /\ bulk = BulkIdle(<<>>)
    /\ \E names \in {ns \in [1..2 -> DirNames] : ns[1] # ns[2]} :
       \E first \in Listings(names[1]) : \E second \in Listings(names[2]) :
       \E start_date \in {None, DayAt(2)} : \E end_date \in {None, DayAt(2)} :
           cdir = [pc |-> "loop",
                   var_dirs |-> <<[name |-> names[1], files |-> first],
                                  [name |-> names[2], files |-> second]>>,
                   k |-> 1, given |-> <<start_date, end_date>>,
                   start_date |-> start_date, end_date |-> end_date, calls |-> <<>>]

\* one iteration of "for var_dir in var_dirs": an unknown variable and an
\* empty directory are skipped; a missing argument is replaced by the minimum
\* or maximum date of the sampled names and stays so for the directories that
\* follow; start_date.year raises when it is still None; process_time_series
\* is called with the two dates
ConvertVariable ==
    /\ cdir.pc = "loop"
    /\ cdir.k <= Len(cdir.var_dirs)
    /\ LET var_dir == cdir.var_dirs[cdir.k]
           missing == cdir.start_date = None \/ cdir.end_date = None
           dates == DatesOf(SubSeq(var_dir.files, 1, Min(sample_size, Len(var_dir.files))))
           start_date == IF missing /\ dates # {} /\ cdir.start_date = None
                         THEN MinDate(dates) ELSE cdir.start_date
           end_date == IF missing /\ dates # {} /\ cdir.end_date = None
                       THEN MaxDate(dates) ELSE cdir.end_date
       IN IF var_dir.name \notin VARIABLE_INFO \/ (missing /\ var_dir.files = <<>>)
          THEN cdir' = [cdir EXCEPT !.k = @ + 1]
          ELSE IF start_date = None \/ end_date = None
          THEN cdir' = [cdir EXCEPT !.pc = "raised",
                                    !.start_date = start_date, !.end_date = end_date]
          ELSE cdir' = [cdir EXCEPT
                           !.k = @ + 1, !.start_date = start_date, !.end_date = end_date,
                           !.calls = Append(@, [dir |-> cdir.k, variable |-> var_dir.name,
                                                start_date |-> start_date,
                                                end_date |-> end_date])]
    /\ UNCHANGED <<original, zslice, raster, bulk>>
    /\ UNCHANGED <<dvars, zvars>>

\* the loop is over
ConvertReturn ==
    /\ cdir.pc = "loop"
    /\ cdir.k > Len(cdir.var_dirs)
    /\ cdir' = [cdir EXCEPT !.pc = "returned"]
    /\ UNCHANGED <<original, zslice, raster, bulk>>
    /\ UNCHANGED <<dvars, zvars>>

NextConvert == ConvertVariable \/ ConvertReturn

SpecConvert == InitConvert /\ [][NextConvert]_vars

(***************************************************************************)
(* download_batch of the bulk downloader over the daily files of one       *)
(* variable.                                                               *)
(***************************************************************************)
\* the number of (url, filename) pairs of the explored calls
MaxUrls == 2
\* the filenames of the first n days
BulkNames(n) == [k \in 1..n |-> BulkFilename(DayAt(k))]

\* an output tree left by earlier runs
InitBulk ==
    /\ DownloaderInit([start_date |-> FirstDay, end_date |-> FirstDay,
                       variables |-> <<>>, max_workers |-> 1],
                      [responses |-> Nominal, limited |-> TRUE, free |-> Nominal],
                      0, EmptyTree)
    /\ NoConverter
    /\ NoRaster
    /\ \E tree \in [{BulkNames(MaxUrls)[k] : k \in 1..MaxUrls} -> FileStates] :
           bulk = BulkIdle(tree)
    /\ cdir = [pc |-> "idle", var_dirs |-> <<>>, k |-> 0, given |-> <<None, None>>,
               start_date |-> None, end_date |-> None, calls |-> <<>>]

\* download_batch(urls) up to the end of the submission loop: a file that
\* exists is appended to downloaded, any other is submitted; the pool of 4
\* workers runs every submitted download at once
BulkCall(n) ==
    /\ bulk.pc = "idle"
    /\ LET urls == BulkNames(n)
           existing == SelectSeq(urls, LAMBDA f : BulkSkips(bulk.fs[f]))
       IN bulk' = [bulk EXCEPT
                      !.pc = "pool", !.urls = urls, !.fs0 = bulk.fs,
                      !.st = [k \in 1..n |-> IF BulkSkips(bulk.fs[urls[k]])
                                             THEN "skipped" ELSE "running"],
                      !.attempt = [k \in 1..n |-> 0],
                      !.answers = [k \in 1..n |-> <<>>],
                      !.downloaded = existing, !.failed = <<>>]
    /\ UNCHANGED <<original, zslice, raster, cdir>>
    /\ UNCHANGED <<dvars, zvars>>

\* one iteration of "for attempt in range(retries)" of download_file for the
\* i-th pair, urlretrieve behaving as r
BulkAttempt(i, r) ==
    /\ bulk.pc = "pool"
    /\ i \in 1..Len(bulk.urls)
    /\ bulk.st[i] = "running"
    /\ LET again == IsURLError(r) /\ bulk.attempt[i] < retries - 1
       IN bulk' = [bulk EXCEPT
                      !.fs[bulk.urls[i]] = Retrieved(@, r),
                      !.answers[i] = Append(@, r),
                      !.attempt[i] = IF again THEN @ + 1 ELSE @,
                      !.st[i] = IF again THEN "running"
                                ELSE IF r.kind = "ok" THEN "succeeded" ELSE "failed"]
    /\ UNCHANGED <<original, zslice, raster, cdir>>
    /\ UNCHANGED <<dvars, zvars>>

\* "for future in as_completed(futures)": the result of a finished download
\* is appended to downloaded or to failed
BulkCollect(i) ==
    /\ bulk.pc = "pool"
    /\ i \in 1..Len(bulk.urls)
    /\ bulk.st[i] \in {"succeeded", "failed"}
    /\ bulk' = [bulk EXCEPT
                   !.st[i] = "collected",
                   !.downloaded = IF bulk.st[i] = "succeeded"
                                  THEN Append(@, bulk.urls[i]) ELSE @,
                   !.failed = IF bulk.st[i] = "failed"
                              THEN Append(@, bulk.urls[i]) ELSE @]
    /\ UNCHANGED <<original, zslice, raster, cdir>>
    /\ UNCHANGED <<dvars, zvars>>

\* return downloaded, failed
BulkReturn ==
    /\ bulk.pc = "pool"
    /\ \A i \in 1..Len(bulk.urls) : bulk.st[i] \in {"skipped", "collected"}
    /\ bulk' = [bulk EXCEPT !.pc = "returned"]
    /\ UNCHANGED <<original, zslice, raster, cdir>>
    /\ UNCHANGED <<dvars, zvars>>

NextBulk ==
    \/ \E n \in 1..MaxUrls : BulkCall(n)
    \/ \E i \in 1..MaxUrls : \E r \in BulkResponses : BulkAttempt(i, r)
    \/ \E i \in 1..MaxUrls : BulkCollect(i)
    \/ BulkReturn

SpecBulk == InitBulk /\ [][NextBulk]_vars

(***************************************************************************)
(* Properties.                                                             *)
(***************************************************************************)
Finished(i) == st[i] \in {"finished", "collected"}
InCall == rpc \in {"pool", "returned"}
NoRequest(i) == nreq[i]["primary"] = 0 /\ nreq[i]["fallback"] = 0
ValidFile(file) == file.exists /\ file.size > 1000
ReportsAlready(i) == Finished(i) /\ future[i].success /\ future[i].message = MsgAlready
\* the thread of task i runs one iteration of download_file in this step
Iterates(i) ==
    /\ rpc = "pool" /\ rpc' = "pool"
    /\ st[i] = "running"
    /\ st'[i] # "running" \/ attempt'[i] # attempt[i] \/ use_ftp'[i] # use_ftp[i]

\* C1: an iteration of download_file returns "Already downloaded" exactly
\* when, at its check, the destination exists with more than 1000 bytes, and
\* then it makes no request and leaves the file alone; in every other case
\* (no file, or 0..1000 bytes) the iteration makes a request.
C1_AlreadyIffLargerThanThreshold ==
    [][\A i \in TaskIds : Iterates(i) =>
        LET path == PathOf(tasks[i])
            u == UrlKind(use_ftp[i])
            already == st'[i] = "finished" /\ future'[i].success
                       /\ future'[i].message = MsgAlready
        IN  /\ ValidFile(fs[path]) <=> already
            /\ already => /\ nreq'[i] = nreq[i]
                          /\ nwrites'[i] = nwrites[i]
                          /\ fs'[path] = fs[path]
            /\ ~ValidFile(fs[path]) => nreq'[i][u] = nreq[i][u] + 1]_vars

\* a task found 1001 bytes and reported "Already downloaded" without a request
C1_Witness ==
    \E i \in TaskIds : /\ ReportsAlready(i)
                       /\ NoRequest(i)
                       /\ fs0[PathOf(tasks[i])] = File(1001)

\* C2: once a URL of a task has answered 404, the task makes no further
\* request on that URL.
C2_NotFoundNotRetried ==
    [][\A i \in TaskIds : \A u \in UrlKinds :
        rpc = "pool" /\ rpc' # "idle" /\ lastResp[i][u] = RespHttp(404)
            => nreq'[i][u] = nreq[i][u]]_vars

\* a URL answered 404 on its third attempt, after two transient failures
C2_Witness ==
    \E i \in TaskIds : \E u \in UrlKinds :
        Finished(i) /\ lastResp[i][u] = RespHttp(404) /\ nreq[i][u] = 3

\* C3: the fallback URL is requested only after the primary URL was requested
\* and answered 404; no other primary failure leads to a fallback request.
C3_FallbackOnlyAfterNotFound ==
    \A i \in TaskIds :
        InCall /\ nreq[i]["fallback"] > 0 =>
            nreq[i]["primary"] > 0 /\ lastResp[i]["primary"] = RespHttp(404)

\* the retry sequence of URL u of task i has ended in failure
Exhausted(i, u) == lastResp[i][u] = RespHttp(404) \/ (nreq[i][u] = 3 /\ lastResp[i][u].kind # "ok")

\* C4 as stated: a task is reported failed only once both URLs have exhausted
\* their retry sequences.
C4_FailedOnlyAfterBothExhausted ==
    \A i \in TaskIds :
        InCall /\ Finished(i) /\ ~future[i].success =>
            Exhausted(i, "primary") /\ Exhausted(i, "fallback")

\* C4 amended: a task is reported failed only once the primary URL has
\* exhausted its retry sequence and, if the fallback URL was tried at all, the
\* fallback URL has too; after a primary failure whose message does not
\* contain "404" the fallback URL is never tried.
C4_FailedOnlyAfterTriedExhausted ==
    \A i \in TaskIds :
        InCall /\ Finished(i) /\ ~future[i].success =>
            /\ Exhausted(i, "primary")
            /\ use_ftp[i] \/ nreq[i]["fallback"] > 0 => Exhausted(i, "fallback")
            /\ lastResp[i]["primary"] \in {RespTimeout, RespHttp(500), RespWriteFail(0),
                                          RespWriteFail(1001)}
                  => ~use_ftp[i] /\ nreq[i]["fallback"] = 0

\* a task failed after a 404 on the primary URL and three failures on the fallback
C4_Witness ==
    \E i \in TaskIds :
        /\ Finished(i) /\ ~future[i].success
        /\ lastResp[i]["primary"] = RespHttp(404)
        /\ nreq[i]["fallback"] = 3

\* C5: a download_file call makes at most 3 requests on its URL, a task at
\* most 6 in total, and after an attempt that succeeded the task makes no
\* further request: it has returned success.
C5_AtMostThreeAttemptsPerUrl ==
    \A i \in TaskIds :
        InCall =>
            /\ nreq[i]["primary"] <= 3
            /\ nreq[i]["fallback"] <= 3
            /\ nreq[i]["primary"] + nreq[i]["fallback"] <= 6
            /\ \A u \in UrlKinds :
                 lastResp[i][u].kind = "ok" => Finished(i) /\ future[i].success
            /\ lastResp[i]["primary"].kind = "ok" => nreq[i]["fallback"] = 0

\* a task that made 3 requests on each URL
C5_Witness ==
    \E i \in TaskIds : Finished(i) /\ nreq[i]["primary"] = 3 /\ nreq[i]["fallback"] = 3

HasEntry(list, i) ==
    \E k \in 1..Len(list) :
        list[k].date = DateStr(tasks[i][1]) /\ list[k].variable = tasks[i][2]
HasLogLine(i) ==
    \E k \in 1..Len(log.lines) :
        log.lines[k][1] = DateStr(tasks[i][1]) /\ log.lines[k][2] = tasks[i][2]

\* C6: when the third request on a URL succeeds (the first two having failed
\* and been retried), the task returns success with the message "Success",
\* the body is in the destination file, and the task is neither in the failed
\* list nor in the failure log of the call.
C6_ThirdAttemptSuccess ==
    \A i \in TaskIds : \A u \in UrlKinds :
        InCall /\ nreq[i][u] = 3 /\ lastResp[i][u].kind = "ok" =>
            /\ Finished(i)
            /\ future[i].success
            /\ future[i].message = MsgSuccess
            /\ future[i].path = PathOf(tasks[i])
            /\ nwrites[i] >= 1
            /\ rpc = "pool" \/ PathOf(tasks[i]) \notin last.deleted
                  => fs[PathOf(tasks[i])] = File(lastResp[i][u].n)
            /\ ~HasEntry(failed, i)
            /\ rpc = "returned" => ~HasLogLine(i)

\* the call returned with a task whose primary URL succeeded on the third request
C6_Witness ==
    \E i \in TaskIds :
        /\ rpc = "returned"
        /\ nreq[i]["primary"] = 3
        /\ lastResp[i]["primary"].kind = "ok"
        /\ Len(slept[i]["primary"]) = 2

\* C7: the k-th sleep of a download_file call (k = 1, 2, ...) lasts 2^(k-1)
\* seconds; every failed attempt that is retried is followed by one sleep
\* before the next attempt, and the attempt that returns the failure is not.
C7_ExponentialBackoff ==
    \A i \in TaskIds : \A u \in UrlKinds :
        InCall =>
            /\ \A k \in 1..Len(slept[i][u]) : slept[i][u][k] = 2 ^ (k - 1)
            /\ \A k \in 2..Len(slept[i][u]) : slept[i][u][k] = 2 * slept[i][u][k - 1]
            /\ Len(slept[i][u]) <= 2
            /\ st[i] = "running" /\ UrlKind(use_ftp[i]) = u
                  => Len(slept[i][u]) = attempt[i] /\ nreq[i][u] = attempt[i]
            /\ Finished(i) /\ ~future[i].success /\ UrlKind(use_ftp[i]) = u
                  => Len(slept[i][u]) = nreq[i][u] - 1
            /\ use_ftp[i] /\ u = "primary" => Len(slept[i][u]) = nreq[i][u] - 1

\* a URL failed three times: the thread slept 1 s and 2 s, and not after the third
C7_Witness ==
    \E i \in TaskIds : \E u \in UrlKinds :
        /\ Finished(i) /\ ~future[i].success
        /\ nreq[i][u] = 3
        /\ slept[i][u] = <<1, 2>>

AllTaskFilesValid(tree) == \A j \in TaskIds : ValidFile(tree[PathOf(tasks[j])])
\* the current call is a re-run after a call in which every task succeeded,
\* with no file deleted in between
RerunAfterSuccess == InCall /\ prev.ran /\ prev.allOk /\ prev.deleted = {}

\* C8 as stated: in a re-run after a run in which every task succeeded, no
\* task makes a request or writes its file, and every task returns
\* "Already downloaded".
C8_RerunMakesNoRequest ==
    \A i \in TaskIds :
        RerunAfterSuccess =>
            /\ NoRequest(i)
            /\ nwrites[i] = 0
            /\ Finished(i) => ReportsAlready(i)

\* C8 amended: the same, for a re-run after a run in which every task
\* succeeded and which left every destination file larger than 1000 bytes.
C8_RerunOfValidTreeMakesNoRequest ==
    \A i \in TaskIds :
        RerunAfterSuccess /\ AllTaskFilesValid(fs0) =>
            /\ NoRequest(i)
            /\ nwrites[i] = 0
            /\ rpc = "pool" => fs[PathOf(tasks[i])] = fs0[PathOf(tasks[i])]
            /\ Finished(i) => ReportsAlready(i)

\* a re-run of two tasks returned, both "Already downloaded"
C8_Witness ==
    /\ rpc = "returned"
    /\ prev.ran /\ prev.allOk /\ prev.deleted = {}
    /\ Len(tasks) = 2
    /\ AllTaskFilesValid(fs0)
    /\ \A i \in TaskIds : ReportsAlready(i) /\ NoRequest(i)

\* the current call is a re-run on a tree that was fully populated when the
\* previous call returned and from which exactly one file was deleted since
RerunAfterOneDeletion ==
    /\ InCall
    /\ prev.ran
    /\ AllTaskFilesValid(prev.tree)
    /\ Cardinality(prev.deleted) = 1

\* C9: in such a re-run only the task of the deleted file makes a request;
\* every other task makes no request, does not write, leaves its file as it
\* was and returns "Already downloaded".
C9_OnlyDeletedFileRefetched ==
    \A i \in TaskIds :
        RerunAfterOneDeletion =>
            IF PathOf(tasks[i]) \in prev.deleted
            THEN Finished(i) => nreq[i]["primary"] >= 1
            ELSE /\ NoRequest(i)
                 /\ nwrites[i] = 0
                 /\ rpc = "pool" => fs[PathOf(tasks[i])] = fs0[PathOf(tasks[i])]
                 /\ Finished(i) => ReportsAlready(i)

\* a re-run of two tasks returned: the deleted file was fetched and written
\* again, the other task was skipped
C9_Witness ==
    /\ rpc = "returned"
    /\ RerunAfterOneDeletion
    /\ Len(tasks) = 2
    /\ \E i \in TaskIds : \E j \in TaskIds :
         /\ PathOf(tasks[i]) \in prev.deleted
         /\ future[i].message = MsgSuccess /\ nwrites[i] = 1
         /\ j # i /\ ReportsAlready(j) /\ NoRequest(j)

\* the days from start_date to end_date inclusive, and the selected variables
DaysBetween == {d \in Days : DateLE(args.start_date, d) /\ DateLE(d, args.end_date)}
Selected == IF args.variables = <<>> THEN self_variables ELSE args.variables
Pairs == {<<d, Selected[k]>> : d \in DaysBetween, k \in 1..Len(Selected)}
ResultsFor(i) ==
    {k \in 1..Len(results) :
        results[k].date = DateStr(tasks[i][1]) /\ results[k].variable = tasks[i][2]}

\* C10: download_range has exactly one task per (date, variable) with the
\* date between start_date and end_date inclusive and the variable among the
\* selected ones, so days x variables tasks, none when start_date is after
\* end_date; and it returns exactly one result per task.
C10_OneTaskAndResultPerPair ==
    InCall =>
        /\ {tasks[i] : i \in TaskIds} = Pairs
        /\ Len(tasks) = Cardinality(Pairs)
        /\ Len(tasks) = Cardinality(DaysBetween) * Len(Selected)
        /\ ~DateLE(args.start_date, args.end_date) => Len(tasks) = 0
        /\ rpc = "returned" =>
             /\ Len(results) = Len(tasks)
             /\ \A i \in TaskIds : Cardinality(ResultsFor(i)) = 1

\* a call over 3 days and all 7 variables returned 21 results
C10_Witness ==
    /\ rpc = "returned"
    /\ Cardinality(DaysBetween) = 3
    /\ args.variables = <<>>
    /\ Len(results) = 21

IsDownloaded(r) == r.success /\ r.message # MsgAlready
IsAlready(r) == r.success /\ r.message = MsgAlready
IsFailure(r) == ~r.success
LogLinesFor(i) ==
    {k \in 1..Len(log.lines) :
        log.lines[k][1] = DateStr(tasks[i][1]) /\ log.lines[k][2] = tasks[i][2]}

\* C11: when download_range returns, the skipped list holds exactly the
\* results that are successes with "Already downloaded" and the failed list
\* exactly the results that are not successes, so that the newly downloaded,
\* the skipped and the failed add up to the number of tasks; and the log holds
\* one line for each failed task and no line for any other task.
C11_ThreeClassesAndLog ==
    rpc = "returned" =>
        /\ skipped = SelectSeq(results, IsAlready)
        /\ failed = SelectSeq(results, IsFailure)
        /\ Len(SelectSeq(results, IsDownloaded)) + Len(skipped) + Len(failed) = Len(tasks)
        /\ log.total = Len(tasks)
        /\ log.failed = Len(failed)
        /\ log.success = Len(tasks) - Len(failed)
        /\ Len(log.lines) = Len(failed)
        /\ \A i \in TaskIds :
             /\ Cardinality(LogLinesFor(i)) = IF future[i].success THEN 0 ELSE 1
             /\ \A k \in LogLinesFor(i) : log.lines[k][3] = future[i].message

\* a call of two tasks returned with one task failed and the other skipped
C11_Witness ==
    /\ rpc = "returned"
    /\ Len(tasks) = 2
    /\ Len(failed) = 1
    /\ Len(skipped) = 1
    /\ Len(log.lines) = 1

\* the outcome of task i follows from its own file and its own answers
OwnOutcome(i) ==
    future[i].success <=>
        \/ ValidFile(fs0[PathOf(tasks[i])])
        \/ lastResp[i]["primary"].kind = "ok"
        \/ lastResp[i]["fallback"].kind = "ok"

\* C12: every attempt ending, a call of download_range that has submitted its
\* tasks returns (unless the process is interrupted), with one result for
\* every task, whichever tasks fail; and the outcome of a task is that of its
\* own file and its own requests, whatever happens to the other tasks.
C12_EveryCallReturnsEveryResult ==
    /\ (rpc = "pool") ~> (\/ /\ rpc = "returned"
                             /\ Len(results) = Len(tasks)
                             /\ \A i \in TaskIds : HasEntry(results, i)
                          \/ rpc = "idle")
    /\ [](\A i \in TaskIds : InCall /\ Finished(i) => OwnOutcome(i))

\* on one thread, the first task failed and the second was downloaded all the same
C12_Witness ==
    /\ rpc = "returned"
    /\ args.max_workers = 1
    /\ Len(tasks) = 2
    /\ ~future[1].success
    /\ future[2].success /\ future[2].message = MsgSuccess

Executing == {i \in TaskIds : st[i] = "running"}

\* C13: inside download_range called with max_workers = N, at most N tasks
\* are executing at any time; a task starts only when fewer than N are
\* executing, and an executing task, also between two attempts, stays so
\* until download_date_variable returns its result.
C13_AtMostMaxWorkersExecuting ==
    /\ [](rpc = "pool" => Cardinality(Executing) <= args.max_workers)
    /\ [][\A i \in TaskIds : rpc = "pool" /\ rpc' # "idle" =>
            /\ st[i] = "queued" /\ st'[i] # "queued"
                  => st'[i] = "running" /\ Cardinality(Executing) < args.max_workers
            /\ st[i] = "running" /\ st'[i] # "running"
                  => st'[i] = "finished" /\ future'[i] # Pending]_vars

\* one thread: a task sleeps between two attempts while the next task waits
C13_Witness ==
    /\ rpc = "pool"
    /\ args.max_workers = 1
    /\ Len(tasks) = 2
    /\ st[1] = "running" /\ slept[1]["primary"] = <<1>>
    /\ st[2] = "queued"

C15_TruncatedFileAccepted ==
    /\ [][rpc = "pool" /\ rpc' = "idle" =>
            \E i \in TaskIds :
                /\ st[i] = "running"
                /\ fs'[PathOf(tasks[i])].exists /\ ~fs'[PathOf(tasks[i])].whole
                /\ \A q \in DOMAIN fs : q # PathOf(tasks[i]) => fs'[q] = fs[q]]_vars
    /\ [](\A i \in TaskIds :
            InCall /\ ~fs0[PathOf(tasks[i])].whole /\ ValidFile(fs0[PathOf(tasks[i])]) =>
                /\ NoRequest(i)
                /\ nwrites[i] = 0
                /\ rpc = "pool" => fs[PathOf(tasks[i])] = fs0[PathOf(tasks[i])]
                /\ Finished(i) => ReportsAlready(i))

\* the call after an interrupted write returned: the truncated file of 1001
\* bytes was reported "Already downloaded" and is still truncated
C15_Witness ==
    /\ rpc = "returned"
    /\ \E i \in TaskIds :
         /\ fs0[PathOf(tasks[i])] = Truncated(1001)
         /\ fs[PathOf(tasks[i])] = Truncated(1001)
         /\ ReportsAlready(i)
         /\ NoRequest(i)

(***************************************************************************)
(* The store after process_time_series.                                    *)
(***************************************************************************)
\* a < b for two dates
DateLT(a, b) == DateLE(a, b) /\ a # b
\* process_time_series is not between its entry and its end
CallEnded == pts.pc \in {"returned", "raised"}
\* the to_zarr calls of the current call that returned
WritesDone == {k \in 1..Len(zhist.writes) : zhist.writes[k].outcome = "written"}

\* C16: after any sequence of process_time_series calls on one store, the time
\* coordinate of the store is strictly increasing, so without duplicates.
C16_TimeStrictlyIncreasing ==
    CallEnded /\ store.exists =>
        \A k \in 1..(Len(store.time) - 1) : DateLT(store.time[k], store.time[k + 1])

\* C17: once process_time_series has written its batches, the length of the
\* store's time coordinate is the number of distinct files decoded into it.
C17_LengthIsDistinctDecoded ==
    CallEnded /\ store.exists => Len(store.time) = Cardinality(zhist.decoded)

\* C18: a call that found no store issues its first write in create/replace
\* mode and every later write as an append; a call that found a store issues
\* every write as an append.
C18_FirstWriteCreatesRestAppend ==
    \A k \in 1..Len(zhist.writes) :
        zhist.writes[k].mode = IF k = 1 /\ ~pts.append_mode THEN "w" ELSE "a"

\* C19: the chunk shape requested by every write of a call is the chunk shape
\* the store was created with, whatever the length of the batch.
C19_RequestedChunksAreCreationChunks ==
    \A k \in WritesDone : zhist.writes[k].chunks = store.chunks

C21_WrittenBatchSortedByTime ==
    \A k \in 1..Len(zhist.writes) :
        \A h \in 1..(Len(zhist.writes[k].times) - 1) :
            DateLE(zhist.writes[k].times[h], zhist.writes[k].times[h + 1])
\* a batch whose datasets were collected with a later date first was written
C21_Witness ==
    \E k \in WritesDone :
        /\ Len(zhist.writes[k].concat) >= 2
        /\ DateLT(zhist.writes[k].concat[2], zhist.writes[k].concat[1])
        /\ zhist.writes[k].times # zhist.writes[k].concat

\* C22: within one call the batches are written in ascending date order: every
\* timestamp of a later batch is later than every timestamp of an earlier one.
C22_BatchesInAscendingDateOrder ==
    \A k \in 1..Len(zhist.writes) : \A h \in 1..Len(zhist.writes) :
        k < h =>
            \A a \in 1..Len(zhist.writes[k].times) : \A b \in 1..Len(zhist.writes[h].times) :
                DateLT(zhist.writes[k].times[a], zhist.writes[h].times[b])

\* the number of time steps of date d handed to to_zarr by the current call
TimesWritten(d) ==
    Cardinality({<<k, h>> \in (1..Len(zhist.writes)) \X (1..(MaxBatch + 1)) :
                    h <= Len(zhist.writes[k].times) /\ zhist.writes[k].times[h] = d})
\* the number of in-range files of date d whose decoding did not raise
FilesDecoded(d) ==
    Cardinality({k \in 1..Len(pts.files_to_process) :
                    /\ pts.files_to_process[k].file_date = d
                    /\ pts.files_to_process[k].file_path \notin zhist.failed})

\* C23: a file whose decoding raises is the only thing left out: the call does
\* not raise, and when it returns every other file in range has been handed
\* to to_zarr, those of the same batch and those of the later batches.
C23_DecodeFailureDropsOnlyThatFile ==
    /\ pts.pc # "raised"
    /\ pts.pc = "returned" => \A d \in Days : TimesWritten(d) = FilesDecoded(d)

\* the name has at least five tokens and its fifth token is a numeral of
\* four, six or eight digits
FollowsGrammar(name) ==
    LET parts == Split(Replace(name, <<".", "b", "i", "l">>), "_")
    IN /\ Len(parts) >= 5
       /\ Len(parts[5]) \in {4, 6, 8}
       /\ IsNumeral(parts[5])
\* the paths kept by the filter loop of the current call
PathsToProcess == {pts.files_to_process[k].file_path : k \in 1..Len(pts.files_to_process)}

\* C25: once the filter loop of a call has run, every matching name that does
\* not follow the grammar has raised in parse_filename and is not among the
\* files to process, and every daily name in range that follows it is.
C25_MalformedNameRaisesAndIsDropped ==
    pts.pc # "idle" =>
        \A n \in input_dir :
            GlobMatches(n, variable) =>
                IF FollowsGrammar(n)
                THEN InRange(parse_filename(n), pts.start_date, pts.end_date)
                         => n \in PathsToProcess
                ELSE n \in pts.parse_errors /\ n \notin PathsToProcess

(***************************************************************************)
(* The decoder and the validator.                                          *)
(***************************************************************************)
\* the .bil members of the archive that was read
Payloads ==
    {k \in 1..Len(original.members) :
        suffix(original.members[k].name) = Dot(<<"b", "i", "l">>)}

\* C24: read_prism_dataset returns a grid for an archive only when the
\* archive holds exactly one .bil member; with none and with several it raises.
C24_GridOnlyFromSinglePayload ==
    /\ raster.pc \in {"converted", "failed", "validated"}
    /\ suffix(original.name) = Dot(<<"z", "i", "p">>)
    /\ ~raster.read.raised
    => Cardinality(Payloads) = 1

\* C26: in the slice written for a file, row i holds the values of row i of
\* the payload, in file order, and is labelled with the i-th latitude from
\* the north; the longitudes ascend from west to east.
C26_RowsKeepDecoderOrder ==
    raster.pc = "converted" =>
        /\ read_bil_file(original).data = read_prism_dataset(original).data
        /\ \A i \in 1..nrows :
               /\ zslice.lat[i] = nrows - i
               /\ \A j \in 1..ncols :
                      LET v == raster.read.payload.content[(i - 1) * ncols + j]
                      IN zslice.values[i][j] = IF v = nodata_value THEN NaN ELSE v
        /\ \A j \in 1..ncols : zslice.lon[j] = j - 1
C26_Witness ==
    /\ raster.pc = "converted"
    /\ zslice.values[1] # zslice.values[nrows]
    /\ zslice.lat[1] > zslice.lat[nrows]

\* C27: validate_zarr returns True only if the source grid and the slice have
\* the same shape and every cell of the source that is not nodata_value
\* differs from the cell of the slice by at most the tolerance.
C27_ValidOnlyIfWithinTolerance ==
    raster.pc = "validated" /\ raster.valid =>
        /\ ~raster.read.raised
        /\ zslice.exists
        /\ Shape(raster.read.data) = Shape(zslice.values)
        /\ \A i \in 1..nrows : \A j \in 1..ncols :
               raster.read.data[i][j] # nodata_value =>
                   /\ zslice.values[i][j] # NaN
                   /\ Abs(raster.read.data[i][j] - zslice.values[i][j]) <= raster.tolerance

(***************************************************************************)
(* download_range under every schedule.                                    *)
(***************************************************************************)
\* what task i yields on its own: from the file its destination held when the
\* call started and from the answers of the remote side to its two URLs
Alone(i) ==
    LET file == fs0[PathOf(tasks[i])]
    IN IF ValidFile(file)
       THEN [success |-> TRUE, message |-> MsgAlready, file |-> file]
       ELSE IF lastResp[i]["primary"].kind = "ok"
       THEN [success |-> TRUE, message |-> MsgSuccess,
             file |-> File(lastResp[i]["primary"].n)]
       ELSE IF lastResp[i]["fallback"].kind = "ok"
       THEN [success |-> TRUE, message |-> MsgSuccess,
             file |-> File(lastResp[i]["fallback"].n)]
       ELSE [success |-> FALSE, message |-> MsgNotFound, file |-> file]

C29_BulkNotFoundIsTerminal ==
    \A i \in 1..Len(bulk.urls) :
        \A k \in 1..(Len(bulk.answers[i]) - 1) :
            bulk.answers[i][k] # RespHttp(404)

\* C30: download_batch counts a file as downloaded without requesting it only
\* if the file existed with more than 1000 bytes when the call started, and
\* submits every other file.
C30_BulkSkipsOnlyValidFiles ==
    \A i \in 1..Len(bulk.urls) :
        bulk.st[i] = "skipped" <=> ValidFile(bulk.fs0[bulk.urls[i]])

(***************************************************************************)
(* The batches and the selection of process_time_series.                   *)
(***************************************************************************)
RECURSIVE Flat(_)
\* the batches taken so far, one after the other
Flat(batches) == IF batches = <<>> THEN <<>> ELSE Head(batches) \o Flat(Tail(batches))

\* C31: the batches of a call are consecutive slices of the in-range files in
\* their sorted order: together they are the files taken so far, all of them
\* once the loop has ended; no batch is empty, none holds more than
\* batch_days files and all but the last hold exactly batch_days.
C31_BatchesPartitionInRangeFiles ==
    /\ pts.pc = "loop" /\ zhist.batches = <<>> =>
           \A k \in 1..(Len(pts.files_to_process) - 1) :
               StrLess(pts.files_to_process[k].file_path,
                       pts.files_to_process[k + 1].file_path)
    /\ pts.pc \in {"loop", "returned", "raised"} =>
           /\ Flat(zhist.batches)
                  = SubSeq(pts.files_to_process, 1, Len(Flat(zhist.batches)))
           /\ \A k \in 1..Len(zhist.batches) :
                  /\ Len(zhist.batches[k]) \in 1..pts.batch_days
                  /\ k < Len(zhist.batches) => Len(zhist.batches[k]) = pts.batch_days
           /\ Len(zhist.batches) > 0 /\ pts.pc = "loop"
                  /\ pts.i < Len(pts.files_to_process)
                  => Len(zhist.batches[Len(zhist.batches)]) = pts.batch_days
    /\ pts.pc = "returned" => Flat(zhist.batches) = pts.files_to_process
\* a call over three files in batches of two has returned
C31_Witness ==
    /\ pts.pc = "returned"
    /\ pts.batch_days = 2
    /\ Len(zhist.batches) = 2
    /\ Len(zhist.batches[1]) = 2
    /\ Len(zhist.batches[2]) = 1

\* C32: when convert_directory is called with neither date, the range it
\* passes to process_time_series for a variable directory contains the date of
\* every daily file of that directory.
C32_DerivedRangeCoversOwnDirectory ==
    cdir.given = <<None, None>> =>
        \A c \in 1..Len(cdir.calls) :
            \A d \in DatesOf(cdir.var_dirs[cdir.calls[c].dir].files) :
                /\ DateLE(cdir.calls[c].start_date, d)
                /\ DateLE(d, cdir.calls[c].end_date)

\* the names of the directory that are daily files of the variable, of any
\* release, for a day between start_date and end_date
DailyInRange ==
    {n \in input_dir :
        \E tag \in {<<"D", "1">>, <<"D", "2">>} : \E d \in Days :
            /\ n = EntryName(variable, tag, DateStr(d))
            /\ DateLE(pts.start_date, d)
            /\ DateLE(d, pts.end_date)}

\* C33: the files process_time_series keeps are exactly the names of the
\* directory that match the variable's pattern and carry the token of a day
\* between start_date and end_date, both ends included, each once; a monthly
\* name, a name without date and a name of another variable are not kept
\* (checked when the filter loop has just run).
C33_SelectedIffDailyInRange ==
    pts.pc \in {"loop", "returned"} /\ zhist.batches = <<>> =>
        /\ PathsToProcess = DailyInRange
        /\ Len(pts.files_to_process) = Cardinality(DailyInRange)
        /\ \A k \in 1..Len(pts.files_to_process) :
               pts.files_to_process[k].file_path
                   = EntryName(variable, SubSeq(pts.files_to_process[k].file_path, 22, 23),
                               DateStr(pts.files_to_process[k].file_date))
\* a call for one day kept the two files of that day out of a directory that
\* also holds a monthly file
C33_Witness ==
    /\ pts.pc = "loop"
    /\ pts.start_date = pts.end_date
    /\ Len(pts.files_to_process) = 2
    /\ EntryName(variable, <<"M", "3">>, SubSeq(DateStr(FirstDay), 1, 6)) \in input_dir

\* C34: a call that found a store issues no write in create/replace mode, a
\* write in that mode is the one of batch 0 of a call that found no store,
\* and while a call that found a store runs the time steps the store held
\* stay in it, in place, whatever is written after them.
C34_ExistingStoreNeverReplaced ==
    /\ [](\A k \in 1..Len(zhist.writes) :
            zhist.writes[k].mode = "w" => ~pts.append_mode /\ zhist.writes[k].i = 0)
    /\ [][pts.pc = "loop" /\ pts.append_mode =>
             /\ store'.exists
             /\ Len(store'.time) >= Len(store.time)
             /\ SubSeq(store'.time, 1, Len(store.time)) = store.time]_vars
\* a second call has appended a batch behind the time steps of the first
C34_Witness ==
    /\ pts.append_mode
    /\ pts.pc = "returned"
    /\ WritesDone # {}
    /\ Len(store.time) > Len(zhist.writes[1].times)

\* C35: the time-chunk size requested by every write is a positive integer
\* not above the number of time steps of the batch written.
C35_TimeChunkPositiveAndWithinBatch ==
    \A k \in 1..Len(zhist.writes) :
        zhist.writes[k].chunks[1] \in 1..Len(zhist.writes[k].times)

(***************************************************************************)
(* The result of download_date_variable and the destination file.          *)
(***************************************************************************)
\* C36: when a task has ended in failure, its destination holds what it held
\* when the call started.
C36_FailedTaskLeavesFileUntouched ==
    InCall /\ last.deleted = {} =>
        \A i \in TaskIds :
            Finished(i) /\ ~future[i].success
                => fs[PathOf(tasks[i])] = fs0[PathOf(tasks[i])]

\* C37: in every result of download_date_variable the path is set exactly when
\* success is true; a successful result carries "Success" or "Already
\* downloaded" and its destination exists when the task returns; a failed
\* result carries a non-empty reason and no path.
C37_ResultFieldsAgree ==
    InCall /\ last.deleted = {} =>
        \A i \in TaskIds :
            Finished(i) =>
                LET r == future[i] IN
                /\ (r.path # None) <=> r.success
                /\ r.success =>
                      /\ r.message \in {MsgSuccess, MsgAlready}
                      /\ r.path = PathOf(tasks[i])
                      /\ fs[PathOf(tasks[i])].exists
                /\ ~r.success => r.message # <<>> /\ r.path = None
\* a call has returned with a task that failed on the text of an exception
\* and carries no path although its destination exists
C37_Witness ==
    /\ rpc = "returned"
    /\ last.deleted = {}
    /\ \E i \in TaskIds :
          /\ Finished(i) /\ ~future[i].success
          /\ future[i].message = MsgNoSpace
          /\ future[i].path = None
          /\ fs[PathOf(tasks[i])].exists

====
